---- MODULE Spec2Model ----
(***************************************************************************)
(* Model of cranktui's BLE trainer session (src/cranktui/ble/client.py):   *)
(* the BLEClient connect/disconnect state machine, run by callers that may *)
(* overlap at the await points, the vendor command encoders, and the       *)
(* notification decoders that merge telemetry into the session aggregate.  *)
(*                                                                         *)
(* Numbers: grades are carried in hundredths of a percent (2000 = 20.0%),  *)
(* so that the float expressions of the source are exact rationals here;   *)
(* on this grid int() of the float equals the integer quotient used below. *)
(* Rider weights are carried in tenths of a kilogram, Crr in 1/10000 and   *)
(* CdA in 1/1000; there int() of the float product is not the exact        *)
(* product, so the product is computed in IEEE-754 binary64.               *)
(* Speeds are exact fractions of a km/h, [num, den] in lowest terms: the   *)
(* value whose nearest float the source computes.                          *)
(***************************************************************************)
EXTENDS Integers, Sequences, FiniteSets, TLC

VARIABLES client, link, created, device_address, device_name, protocol,
          pc, loc, ret, gattLog, encOp, encIn, encOut,
          last_wheel_revs, last_wheel_time, latest_power_w, latest_speed_kmh,
          latest_cadence_rpm, notif, delivery, wheelSeen,
          attempts, failed, unlockWrites, subs,
          ride, shared, snapshot, calls, solver, grader, steady, odo

sessionVars == <<client, device_address, device_name, protocol>>
codecVars == <<encOp, encIn, encOut>>
aggregateVars ==
  <<last_wheel_revs, last_wheel_time, latest_power_w, latest_speed_kmh,
    latest_cadence_rpm>>
decoderVars ==
  <<last_wheel_revs, last_wheel_time, latest_power_w, latest_speed_kmh,
    latest_cadence_rpm, notif, delivery, wheelSeen>>
streamVars == <<attempts, failed, unlockWrites, subs>>
appVars == <<ride, shared, snapshot, calls, solver, grader, steady, odo>>
vars == <<client, link, created, device_address, device_name, protocol,
          pc, loc, ret, gattLog, encOp, encIn, encOut,
          last_wheel_revs, last_wheel_time, latest_power_w, latest_speed_kmh,
          latest_cadence_rpm, notif, delivery, wheelSeen,
          attempts, failed, unlockWrites, subs,
          ride, shared, snapshot, calls, solver, grader, steady, odo>>

(* ---------------------------------------------------------------- bounds *)
NumCallers == 2
MaxTransports == 2
MaxServices == 2
MaxGrade == 2400
MaxLevel == 160
MaxPower == 2100
MaxWeight == 1600
MaxCrr == 120
MaxCda == 700
MaxWheelRevs == 2
MaxTrailing == 1
MaxWorkers == 2
MaxTasks == 3
MaxTargetGrade == 3
MaxUpdates == 3
MaxSolverPower == 4
MaxSolverGrade == 4
MaxSolverMass == 3
MaxRoutePoints == 3
MaxClock == 4

(* ------------------------------------------------------------- constants *)
None == 0
GradeClamp == 2000
PowerClamp == 2000
LevelClamp == 9
GradeScale == 32768
OpLoadLevel == 65
OpErg == 66
OpGradient == 70
OpRider == 67
WeightMin == 40
WeightMax == 150
WeightGrid == 10
WeightScale == 100
CrrMin == 20
CrrMax == 100
CrrScale == 10000
CdaMin == 200
CdaMax == 600
CdaScale == 1000
DefaultCrr == 50
DefaultCda == 550
MantissaBits == 53
Unset == -1
MinVendorLen == 6
MinPowerLen == 4
WheelFieldLen == 6
TimeModulus == 65536
TicksPerSecond == 1024
WheelCircumferenceMm == 2105
KmhPerTenMs == 36
VendorSpeedScale == 100
Unit == 10000
GRAVITY == 98100
AIR_DENSITY == 12250
ROLLING_RESISTANCE == 40
DRAG_COEFFICIENT_AREA == 3000
PercentPerUnit == 1000000
Half == 5000
InitialSpeed == 50000
Iterations == 20
PowerTolerance == 1000
SlopeTolerance == 100
SpeedMin == 1000
SpeedMax == 300000
FiniteLimit == 1000000000
Lookahead == 1000000
MetresPerKm == 10000000
Percent == 1000000

FTMS_SERVICE_UUID == "ftms"
WAHOO_SERVICE_UUID == "wahoo"
CSC_SERVICE_UUID == "csc"
NoServiceMsg == "No FTMS or Wahoo service found"

Callers == 1..NumCallers
Transports == 1..MaxTransports
(* The device a call connects to; the address is data the code only     *)
(* stores, and the name shown for it is stored next to it.               *)
Addresses == {1}
ServiceUUIDs == {FTMS_SERVICE_UUID, WAHOO_SERVICE_UUID, CSC_SERVICE_UUID}
CommandOps ==
  {"set_resistance_level", "set_erg_mode", "set_gradient",
   "set_rider_characteristics"}

RECURSIVE SeqsUpTo(_)
SeqsUpTo(n) ==
  IF n = 0 THEN {<<>>}
  ELSE LET shorter == SeqsUpTo(n - 1)
       IN shorter \cup {Append(s, u) : s \in {x \in shorter : Len(x) = n - 1},
                                       u \in ServiceUUIDs}

Range(s) == {s[i] : i \in DOMAIN s}

(* What a device's GATT table can list: services in any order, no repeats. *)
ServiceLists == {s \in SeqsUpTo(MaxServices) : Cardinality(Range(s)) = Len(s)}

(* ------------------------------------------------------------ session --- *)
(* client is the transport object _client refers to (None, or the number *)
(* of the BleakClientImpl created); link[t] is that object's             *)
(* is_connected: "up" or "down" (also before its connect() completes).   *)
IsConnected == client # None /\ link[client] = "up"

NameOf(a) == a

NoLoc == [t |-> None, addr |-> None, exc |-> "none", svcs |-> <<>>]
NoRet ==
  [op |-> "none", ok |-> FALSE, msg |-> "",
   raised |-> FALSE, svcs |-> <<>>]

(* gattLog and ret are what the latest step put out: the bytes of the   *)
(* GATT write it made (NoWrite if none) and the result of the call that  *)
(* returned in it (NoRet if none).                                       *)
NoWrite == <<>>

(* What a call hands back to its caller: a result, or an exception. *)
Returned(o, success, m) ==
  [op |-> o, ok |-> success, msg |-> m,
   raised |-> FALSE, svcs |-> <<>>]
Raised(o, e) ==
  [op |-> o, ok |-> FALSE, msg |-> e,
   raised |-> TRUE, svcs |-> <<>>]

SessionInit ==
  /\ client = None
  /\ link = [t \in Transports |-> "down"]
  /\ created = 0
  /\ device_address = None
  /\ device_name = None
  /\ protocol = "none"
  /\ pc = [p \in Callers |-> "idle"]
  /\ loc = [p \in Callers |-> NoLoc]
  /\ ret = NoRet
  /\ gattLog = NoWrite

CodecInit ==
  /\ encOp = "none"
  /\ encIn = 0
  /\ encOut = <<>>

(* speed_kmh values: an exact fraction in lowest terms. *)
RECURSIVE GCD(_, _)
GCD(a, b) == IF b = 0 THEN a ELSE GCD(b, a % b)

Frac(n, d) == LET g == GCD(n, d) IN [num |-> n \div g, den |-> d \div g]
ZeroSpeed == Frac(0, 1)

(* notif and delivery are what the latest step was given and put out:   *)
(* the notification it handled and the on_reading call it made;         *)
(* wheelSeen says that a wheel sample arrived on the current connection. *)
NoNotif == [char |-> "none", data |-> <<>>]
NoDelivery ==
  [readings |-> <<>>, cb |-> "none", caught |-> "none", escaped |-> FALSE]

DecoderInit ==
  /\ last_wheel_revs = Unset
  /\ last_wheel_time = Unset
  /\ latest_power_w = 0
  /\ latest_speed_kmh = ZeroSpeed
  /\ latest_cadence_rpm = 0
  /\ notif = NoNotif
  /\ delivery = NoDelivery
  /\ wheelSeen = FALSE

(* attempts and failed are the start_notify statements the current      *)
(* start_data_stream call has executed and those of them that raised;   *)
(* unlockWrites[t] counts the unlock writes issued on transport t.       *)
StreamInit ==
  /\ attempts = {}
  /\ failed = {}
  /\ unlockWrites = [t \in Transports |-> 0]
  /\ subs = [t \in Transports |-> {}]

(* RideMetrics (state.py 13-29): the fields of the dataclass and their   *)
(* defaults; None and False are 0.                                       *)
RideFields ==
  {"speed_kmh", "power_w", "cadence_rpm", "heart_rate_bpm", "distance_m",
   "elapsed_time_s", "grade_pct", "start_time", "is_recording", "mode"}
RideMetrics == [f \in RideFields |-> IF f = "mode" THEN "DEMO" ELSE 0]

(* Workers started with run_worker; one that is not suspended is Idle. *)
Workers == 1..MaxWorkers
Idle == [at |-> "idle", then |-> "none"]

(* event is what the latest step did: who wrote the ride state, how      *)
(* _stop_sim_mode ended in it, what reading resistance_scale gave.        *)
NoEvent == [wrote |-> "none", stop |-> "none", scale |-> "none"]

(* The riding screen after __init__ (riding.py 523-534), its            *)
(* DemoSimulator (running, simulator_task), the asyncio tasks created    *)
(* so far and the shared ride state (metrics).  Grades are in            *)
(* hundredths of a percent, metrics.grade_pct in thousandths.            *)
RideInit ==
  ride = [metrics |-> RideMetrics, ride_state |-> "not_started",
          modal |-> FALSE, sim_task |-> None, last_gradient |-> 0,
          target_gradient |-> 0, running |-> FALSE, simulator_task |-> None,
          tasks |-> <<>>, wk |-> [w \in Workers |-> Idle],
          connected |-> FALSE, event |-> NoEvent]

(* shared[f] is the number of the update_metrics call that last set      *)
(* field f, calls[n] the keyword names of call n, snapshot the latest    *)
(* get_metrics result.                                                   *)
MetricsInit ==
  /\ shared = [f \in RideFields |-> 0]
  /\ snapshot = [f \in RideFields |-> 0]
  /\ calls = <<>>

(* Floats of power_to_speed.  A finite value is held in ten-thousandths *)
(* (Unit is 1.0), rounded toward zero, with magnitudes above FiniteLimit *)
(* held at FiniteLimit; infinities and NaN are values of their own and   *)
(* follow the IEEE-754 rules python's float operators follow.            *)
Fin(n) == [k |-> "fin", v |-> n]
PosInf == [k |-> "inf", v |-> 1]
NegInf == [k |-> "inf", v |-> -1]
NaN == [k |-> "nan", v |-> 0]
NoResult == [k |-> "none", v |-> 0]

SignOf(n) == IF n < 0 THEN -1 ELSE 1
Held(n) ==
  IF n < -FiniteLimit THEN -FiniteLimit
  ELSE IF n > FiniteLimit THEN FiniteLimit ELSE n
Key(a) == IF a.k = "inf" THEN a.v * 2 * FiniteLimit ELSE a.v

(* a < b and a <= b: False whenever an operand is NaN. *)
FLt(a, b) == a.k # "nan" /\ b.k # "nan" /\ Key(a) < Key(b)
FLe(a, b) == a.k # "nan" /\ b.k # "nan" /\ Key(a) <= Key(b)

FNeg(a) == [a EXCEPT !.v = -a.v]
FAbs(a) == IF a.v < 0 THEN FNeg(a) ELSE a

FAdd(a, b) ==
  IF a.k = "nan" \/ b.k = "nan" THEN NaN
  ELSE IF a.k = "inf" THEN (IF b.k = "inf" /\ b.v # a.v THEN NaN ELSE a)
  ELSE IF b.k = "inf" THEN b
  ELSE Fin(Held(a.v + b.v))

FSub(a, b) == FAdd(a, FNeg(b))

(* x * y / Unit of two magnitudes, in parts that stay within 32 bits.   *)
MulMagnitude(x, y) ==
  LET q == x \div Unit
      r == x % Unit
      q2 == y \div Unit
      r2 == y % Unit
  IN  IF q > 0 /\ y > FiniteLimit \div q THEN FiniteLimit
      ELSE Held(q * y + r * q2 + (r * r2) \div Unit)

FMul(a, b) ==
  IF a.k = "nan" \/ b.k = "nan" THEN NaN
  ELSE IF a.k = "inf" \/ b.k = "inf"
       THEN (IF a.v = 0 \/ b.v = 0 THEN NaN
             ELSE [k |-> "inf", v |-> SignOf(a.v) * SignOf(b.v)])
  ELSE Fin(SignOf(a.v) * SignOf(b.v)
             * MulMagnitude(FAbs(a).v, FAbs(b).v))

(* x * Unit / y of two magnitudes, y > 0: the quotient, then its        *)
(* fraction two decimal digits at a time.                                *)
DivMagnitude(x, y) ==
  LET q == x \div y
      r == x % y
  IN  IF q >= FiniteLimit \div Unit THEN FiniteLimit
      ELSE IF y > 2 * Unit * 1000 THEN q * Unit + r \div (y \div Unit)
      ELSE q * Unit + ((r * 100) \div y) * 100
             + (((r * 100) % y) * 100) \div y

(* a / b for b # 0 (line 63 admits no other divisor). *)
FDiv(a, b) ==
  IF a.k = "nan" \/ b.k = "nan" THEN NaN
  ELSE IF a.k = "inf"
       THEN (IF b.k = "inf" THEN NaN
             ELSE [k |-> "inf", v |-> a.v * SignOf(b.v)])
  ELSE IF b.k = "inf" THEN Fin(0)
  ELSE Fin(SignOf(a.v) * SignOf(b.v)
             * DivMagnitude(FAbs(a).v, FAbs(b).v))

(* python's min(a, b) and max(a, b): the first argument unless the       *)
(* second compares smaller (larger), so a NaN second argument loses and  *)
(* a NaN first argument stays.                                           *)
PyMin(a, b) == IF FLt(b, a) THEN b ELSE a
PyMax(a, b) == IF FLt(a, b) THEN b ELSE a

(* No call of power_to_speed made yet. *)
SolverInit ==
  solver = [pc |-> "idle", power_w |-> Fin(0), grade_pct |-> Fin(0),
            total_mass_kg |-> Fin(0), grade |-> NoResult,
            speed |-> NoResult, iter |-> 0, result |-> NoResult]

(* No call of _calculate_grade made yet. *)
NoGradeCall ==
  [pc |-> "idle", points |-> <<>>, max_distance |-> Fin(0),
   distance_m |-> Fin(0), lookahead_distance |-> NoResult,
   result |-> NoResult]
GraderInit == grader = NoGradeCall

(* The route's target grade is free to change from tick to tick. *)
NoSteady == [on |-> FALSE, target |-> 0, first |-> 0, ticks |-> 0]
SteadyInit == steady = NoSteady

(* RideState as its distance integration sees it: the stored distance  *)
(* in units of 1/7.2 m (what 1 km/h covers in half a second), the time   *)
(* of the latest update_metrics call and the clock, in half seconds.     *)
OdoInit ==
  odo = [distance_m |-> 0, last_update_time |-> Unset, now |-> 0,
         op |-> "none"]

Init ==
  /\ SessionInit
  /\ CodecInit
  /\ DecoderInit
  /\ StreamInit
  /\ RideInit
  /\ MetricsInit
  /\ SolverInit
  /\ GraderInit
  /\ SteadyInit
  /\ OdoInit

ConnectHandlerBleakOnly(e) == IF e = "BleakError" THEN "bleak" ELSE "none"

(* Exceptions: which except clause of connect() takes an exception. *)
ConnectHandler(e) ==
  IF e = "BleakError" THEN "bleak"
  ELSE IF e \in {"TimeoutError", "AttributeError"} THEN "generic"
  ELSE "none"

(* The f-strings of lines 183 and 192. *)
ErrMsg(e) ==
  IF e = "BleakError" THEN "BLE error: BleakError"
  ELSE IF e = "TimeoutError" THEN "Error: TimeoutError"
  ELSE "Error: AttributeError"

(* The service scan of connect(): one pass over the list, setting a flag  *)
(* per recognised service, then the if/elif on the flags.                 *)
RECURSIVE ScanServices(_, _, _)
ScanServices(svcs, i, found) ==
  IF i > Len(svcs) THEN found
  ELSE ScanServices(svcs, i + 1,
         [ftms  |-> found.ftms \/ svcs[i] = FTMS_SERVICE_UUID,
          wahoo |-> found.wahoo \/ svcs[i] = WAHOO_SERVICE_UUID])

SelectProtocolWahooFirst(svcs) ==
  LET found == ScanServices(svcs, 1, [ftms |-> FALSE, wahoo |-> FALSE])
  IN IF found.wahoo THEN "wahoo"
     ELSE IF found.ftms THEN "ftms"
     ELSE "none"

SelectProtocol(svcs) ==
  LET found == ScanServices(svcs, 1, [ftms |-> FALSE, wahoo |-> FALSE])
  IN IF found.ftms THEN "ftms"
     ELSE IF found.wahoo THEN "wahoo"
     ELSE "none"


(* ------------------------------------------------------ command encoders *)
(* int(): truncation toward zero. *)
IntTrunc(n, d) == IF n >= 0 THEN n \div d ELSE -((-n) \div d)

Clamp(lo, hi, x) == IF x < lo THEN lo ELSE IF x > hi THEN hi ELSE x

LowByte(v) == v % 256
HighByte(v) == (v \div 256) % 256

LoadLevelNoClamp(level) == IntTrunc(level * 9, 100)

(* set_resistance_level: int((level / 100.0) * 9), clamped to 0..9. *)
LoadLevel(level) == Clamp(0, LevelClamp, IntTrunc(level * 9, 100))
LoadLevelCommand(level) == <<OpLoadLevel, LoadLevel(level)>>

ErgPowerNoUpperClamp(watts) == IF watts < 0 THEN 0 ELSE watts

(* set_erg_mode: watts clamped to 0..2000, little-endian. *)
ErgPower(watts) == Clamp(0, PowerClamp, watts)
ErgCommand(watts) ==
  <<OpErg, LowByte(ErgPower(watts)), HighByte(ErgPower(watts))>>

(* set_gradient: g in hundredths of a percent;                            *)
(* int((grade_percent / 100.0 + 1.0) * 32768.0) after the clamp to +-20%. *)
GradientEncode(g) ==
  IntTrunc((10000 + Clamp(-GradeClamp, GradeClamp, g)) * GradeScale, 10000)
GradientCommand(g) ==
  <<OpGradient, LowByte(GradientEncode(g)), HighByte(GradientEncode(g))>>

(* Python floats are IEEE-754 binary64.  A positive float is kept as its  *)
(* significand bits, most significant first, and the number of those bits *)
(* that lie after the binary point: value = NatOf(bits) / 2^exp.          *)
RECURSIVE BitsOf(_)
BitsOf(n) == IF n = 0 THEN <<>> ELSE Append(BitsOf(n \div 2), n % 2)

RECURSIVE NatOf(_)
NatOf(b) ==
  IF b = <<>> THEN 0 ELSE 2 * NatOf(SubSeq(b, 1, Len(b) - 1)) + b[Len(b)]

RECURSIVE IncBits(_)
IncBits(b) ==
  IF b = <<>> THEN <<1>>
  ELSE IF b[Len(b)] = 0 THEN [b EXCEPT ![Len(b)] = 1]
  ELSE Append(IncBits(SubSeq(b, 1, Len(b) - 1)), 0)

(* Round to nearest, ties to even, to a 53-bit significand; sticky0 says  *)
(* that non-zero bits follow those of b.                                  *)
Round53(b, sticky0, k) ==
  IF Len(b) <= MantissaBits THEN [bits |-> b, exp |-> k]
  ELSE LET m == SubSeq(b, 1, MantissaBits)
           sticky == sticky0 \/ \E i \in (MantissaBits + 2)..Len(b) : b[i] = 1
           up == b[MantissaBits + 1] = 1 /\ (sticky \/ m[MantissaBits] = 1)
       IN [bits |-> IF up THEN IncBits(m) ELSE m,
           exp |-> k - (Len(b) - MantissaBits)]

(* Binary long division of rem / q, continued to 54 significant bits. *)
RECURSIVE DivBits(_, _, _, _)
DivBits(rem, q, b, k) ==
  IF Len(b) > MantissaBits \/ (rem = 0 /\ b # <<>>) THEN Round53(b, rem # 0, k)
  ELSE LET d == IF 2 * rem >= q THEN 1 ELSE 0
       IN DivBits(2 * rem - d * q, q,
                  IF b = <<>> /\ d = 0 THEN b ELSE Append(b, d), k + 1)

(* The float a decimal literal or parsed decimal n/q (n > 0) stands for. *)
Float64(n, q) == DivBits(n % q, q, BitsOf(n \div q), 0)

RECURSIVE MulBits(_, _, _)
MulBits(b, s, carry) ==
  IF b = <<>> THEN BitsOf(carry)
  ELSE LET v == b[Len(b)] * s + carry
       IN IF v % 2 = 0
          THEN Append(MulBits(SubSeq(b, 1, Len(b) - 1), s, v \div 2), 0)
          ELSE Append(MulBits(SubSeq(b, 1, Len(b) - 1), s, v \div 2), 1)

(* The float product d * s for an integer s, and int() of a float. *)
FloatMul(d, s) == Round53(MulBits(d.bits, s, 0), FALSE, d.exp)

FloatInt(d) ==
  IF d.exp >= Len(d.bits) THEN 0
  ELSE IF d.exp >= 0 THEN NatOf(SubSeq(d.bits, 1, Len(d.bits) - d.exp))
  ELSE NatOf(d.bits \o [i \in 1..(-d.exp) |-> 0])

(* set_rider_characteristics: w in tenths of a kilogram, c in 1/10000,   *)
(* a in 1/1000; each is clamped, multiplied as a float and truncated.     *)
RiderWeight(w) ==
  FloatInt(FloatMul(Float64(Clamp(WeightMin * WeightGrid,
                                  WeightMax * WeightGrid, w), WeightGrid),
                    WeightScale))
RiderCrr(c) ==
  FloatInt(FloatMul(Float64(Clamp(CrrMin, CrrMax, c), CrrScale), CrrScale))
RiderCda(a) ==
  FloatInt(FloatMul(Float64(Clamp(CdaMin, CdaMax, a), CdaScale), CdaScale))

RiderCommand(w, c, a) ==
  <<OpRider, LowByte(RiderWeight(w)), HighByte(RiderWeight(w)),
    LowByte(RiderCrr(c)), HighByte(RiderCrr(c)),
    LowByte(RiderCda(a)), HighByte(RiderCda(a))>>

(* -------------------------------------------------------------- helpers *)
Return(p, r) ==
  /\ pc' = [pc EXCEPT ![p] = "idle"]
  /\ loc' = [loc EXCEPT ![p] = NoLoc]
  /\ ret' = r

(* disconnect(): the guard of line 196 and the finally block. *)
DisconnectNeeded == client # None /\ link[client] = "up"

DisconnectFinally ==
  /\ client' = None
  /\ device_address' = None
  /\ device_name' = None

(* connect() lines 104-107: a new transport object replaces _client and  *)
(* its connect() is awaited.                                             *)
NewClient(p, a, linkNow) ==
  /\ created < MaxTransports
  /\ created' = created + 1
  /\ client' = created + 1
  /\ link' = [linkNow EXCEPT ![created + 1] = "down"]
  /\ pc' = [pc EXCEPT ![p] = "c_conn"]
  /\ loc' = [loc EXCEPT ![p] = [t |-> created + 1, addr |-> a, exc |-> "none", svcs |-> <<>>]]
  /\ ret' = NoRet

(* connect() lines 175-192: the except clauses.  A handled exception     *)
(* disconnects whatever _client is now (an await), else returns at once. *)
ConnectExcept(p, e) ==
  IF ConnectHandler(e) = "none"
  THEN Return(p, Raised("connect", e))
  ELSE IF client # None
  THEN /\ pc' = [pc EXCEPT ![p] = "c_exc"]
       /\ loc' = [loc EXCEPT ![p] = [t |-> client, addr |-> loc[p].addr, exc |-> e, svcs |-> <<>>]]
       /\ ret' = NoRet
  ELSE Return(p, Returned("connect", FALSE, ErrMsg(e)))

(* ---------------------------------------------------------------- connect *)
(* Lines 95-107 up to the first await. *)
ConnectStart(p, a) ==
  /\ pc[p] = "idle"
  /\ created < MaxTransports
  /\ IF IsConnected
     THEN /\ pc' = [pc EXCEPT ![p] = "c_disc"]
          /\ loc' = [loc EXCEPT ![p] = [t |-> client, addr |-> a, exc |-> "none", svcs |-> <<>>]]
          /\ ret' = NoRet
          /\ UNCHANGED <<client, link, created, device_address, device_name>>
     ELSE /\ NewClient(p, a, link)
          /\ UNCHANGED <<device_address, device_name>>
  /\ gattLog' = NoWrite
  /\ UNCHANGED <<protocol, codecVars, decoderVars, streamVars, appVars>>

(* Line 100 resumes: the transport disconnect returned or raised (the    *)
(* exception is swallowed), the finally block clears the session, then   *)
(* lines 104-107.                                                        *)
ConnectAfterDisconnect(p) ==
  /\ pc[p] = "c_disc"
  /\ NewClient(p, loc[p].addr, [link EXCEPT ![loc[p].t] = "down"])
  /\ device_address' = None
  /\ device_name' = None
  /\ gattLog' = NoWrite
  /\ UNCHANGED <<protocol, codecVars, decoderVars, streamVars, appVars>>

(* Line 107 resumes with the transport's outcome; lines 109-121. *)
ConnectResume(p) ==
  /\ pc[p] = "c_conn"
  /\ \E out \in {"ok", "BleakError", "TimeoutError"} :
       LET t == loc[p].t
           link1 == [link EXCEPT ![t] = IF out = "ok" THEN "up" ELSE "down"]
           exc == IF out # "ok" THEN out
                  ELSE IF client = None THEN "AttributeError" ELSE "none"
       IN /\ link' = link1
          /\ IF exc # "none"
             THEN /\ ConnectExcept(p, exc)
                  /\ UNCHANGED <<device_address, device_name>>
             ELSE IF link1[client] # "up"
             THEN /\ Return(p, Returned("connect", FALSE, "Connection failed"))
                  /\ UNCHANGED <<device_address, device_name>>
             ELSE /\ device_address' = loc[p].addr
                  /\ device_name' = NameOf(loc[p].addr)
                  /\ pc' = [pc EXCEPT ![p] = "c_sleep"]
                  /\ ret' = NoRet
                  /\ UNCHANGED loc
  /\ gattLog' = NoWrite
  /\ UNCHANGED <<client, created, protocol, codecVars, decoderVars, streamVars, appVars>>

(* Lines 177-183 / 186-192 resume: _client.disconnect() returned or      *)
(* raised (bare except), then _client = None and the failure is returned. *)
ConnectExceptResume(p) ==
  /\ pc[p] = "c_exc"
  /\ link' = [link EXCEPT ![loc[p].t] = "down"]
  /\ client' = None
  /\ Return(p, Returned("connect", FALSE, ErrMsg(loc[p].exc)))
  /\ gattLog' = NoWrite
  /\ UNCHANGED <<created, device_address, device_name, protocol, codecVars, decoderVars, streamVars, appVars>>

(* Line 121 resumes: lines 126-173.  Reading .services of a transport    *)
(* whose link is down either raises BleakError or yields the cached      *)
(* table, depending on the bleak backend.                                *)
ConnectEnumerate(p) ==
  /\ pc[p] = "c_sleep"
  /\ \/ /\ client = None
        /\ ConnectExcept(p, "AttributeError")
        /\ UNCHANGED <<client, link, device_address, device_name, protocol>>
     \/ /\ client # None
        /\ link[client] # "up"
        /\ ConnectExcept(p, "BleakError")
        /\ UNCHANGED <<client, link, device_address, device_name, protocol>>
     \/ /\ client # None
        /\ \E svcs \in ServiceLists :
             LET proto == SelectProtocol(svcs)
             IN IF proto # "none"
                THEN /\ protocol' = proto
                     /\ Return(p, [Returned("connect", TRUE, "") EXCEPT !.svcs = svcs])
                     /\ UNCHANGED <<client, link, device_address, device_name>>
                ELSE IF DisconnectNeeded
                THEN /\ pc' = [pc EXCEPT ![p] = "c_nosvc"]
                     /\ loc' = [loc EXCEPT ![p] = [t |-> client, addr |-> loc[p].addr, exc |-> "none", svcs |-> svcs]]
                     /\ ret' = NoRet
                     /\ UNCHANGED <<client, link, device_address, device_name, protocol>>
                ELSE /\ Return(p, [Returned("connect", FALSE, NoServiceMsg) EXCEPT !.svcs = svcs])
                     /\ UNCHANGED <<client, link, device_address, device_name, protocol>>
  /\ gattLog' = NoWrite
  /\ UNCHANGED <<created, codecVars, decoderVars, streamVars, appVars>>

(* Line 172 resumes: disconnect()'s finally block, then line 173. *)
ConnectNoServiceResume(p) ==
  /\ pc[p] = "c_nosvc"
  /\ link' = [link EXCEPT ![loc[p].t] = "down"]
  /\ DisconnectFinally
  /\ Return(p, [Returned("connect", FALSE, NoServiceMsg) EXCEPT !.svcs = loc[p].svcs])
  /\ gattLog' = NoWrite
  /\ UNCHANGED <<created, protocol, codecVars, decoderVars, streamVars, appVars>>

(* ------------------------------------------------------------- disconnect *)
DisconnectStart(p) ==
  /\ pc[p] = "idle"
  /\ IF DisconnectNeeded
     THEN /\ pc' = [pc EXCEPT ![p] = "d_wait"]
          /\ loc' = [loc EXCEPT ![p] = [t |-> client, addr |-> None, exc |-> "none", svcs |-> <<>>]]
          /\ ret' = NoRet
     ELSE Return(p, Returned("disconnect", TRUE, ""))
  /\ gattLog' = NoWrite
  /\ UNCHANGED <<client, link, created, device_address, device_name, protocol,
                 codecVars, decoderVars, streamVars, appVars>>

DisconnectResume(p) ==
  /\ pc[p] = "d_wait"
  /\ link' = [link EXCEPT ![loc[p].t] = "down"]
  /\ DisconnectFinally
  /\ Return(p, Returned("disconnect", TRUE, ""))
  /\ gattLog' = NoWrite
  /\ UNCHANGED <<created, protocol, codecVars, decoderVars, streamVars, appVars>>

(* The peripheral drops the link on its own. *)
LinkDrop(t) ==
  /\ link[t] = "up"
  /\ link' = [link EXCEPT ![t] = "down"]
  /\ UNCHANGED <<client, created, device_address, device_name, protocol,
                 pc, loc, codecVars, decoderVars, streamVars, appVars>>
  /\ ret' = NoRet
  /\ gattLog' = NoWrite

(* --------------------------------------------------------------- commands *)
(* write_characteristic's except clause: every Exception is taken. *)
WriteHandler(e) ==
  IF e \in {"BleakError", "TimeoutError", "AttributeError"} THEN "generic"
  ELSE "none"

CommandGuardConnectedOnly == IsConnected

(* Lines 364, 388, 416, 452: the guard every command method starts with. *)
CommandGuard == IsConnected /\ protocol = WAHOO_SERVICE_UUID

(* write_characteristic (lines 256-267): the connected check, the GATT   *)
(* write on the current transport, and the conversion of its outcome.    *)
WriteCharacteristic(p, op, data) ==
  IF ~IsConnected \/ client = None
  THEN /\ Return(p, Returned(op, FALSE, ""))
       /\ gattLog' = NoWrite
  ELSE /\ gattLog' = data
       /\ \E out \in {"ok", "BleakError", "TimeoutError"} :
            IF out = "ok" THEN Return(p, Returned(op, TRUE, ""))
            ELSE IF WriteHandler(out) = "none" THEN Return(p, Raised(op, out))
            ELSE Return(p, Returned(op, FALSE, ""))

Command(p, op, data) ==
  /\ pc[p] = "idle"
  /\ IF ~CommandGuard
     THEN /\ Return(p, Returned(op, FALSE, ""))
          /\ gattLog' = NoWrite
     ELSE WriteCharacteristic(p, op, data)
  /\ UNCHANGED <<client, link, created, device_address, device_name, protocol,
                 codecVars, decoderVars, streamVars, appVars>>

SessionLevels == {50}
SessionWatts == {250}
SessionGrades == {500}
SessionWeights == {850}

SetResistanceLevel(p) ==
  \E level \in SessionLevels :
    Command(p, "set_resistance_level", LoadLevelCommand(level))

SetErgMode(p) ==
  \E watts \in SessionWatts : Command(p, "set_erg_mode", ErgCommand(watts))

SetGradient(p) ==
  \E g \in SessionGrades : Command(p, "set_gradient", GradientCommand(g))

SetRiderCharacteristics(p) ==
  \E w \in SessionWeights :
    Command(p, "set_rider_characteristics",
            RiderCommand(w, DefaultCrr, DefaultCda))

(* ------------------------------------------------------ the session spec *)
Next ==
  \/ \E p \in Callers, a \in Addresses : ConnectStart(p, a)
  \/ \E p \in Callers : ConnectAfterDisconnect(p)
  \/ \E p \in Callers : ConnectResume(p)
  \/ \E p \in Callers : ConnectExceptResume(p)
  \/ \E p \in Callers : ConnectEnumerate(p)
  \/ \E p \in Callers : ConnectNoServiceResume(p)
  \/ \E p \in Callers : DisconnectStart(p)
  \/ \E p \in Callers : DisconnectResume(p)
  \/ \E t \in Transports : LinkDrop(t)
  \/ \E p \in Callers : SetResistanceLevel(p)
  \/ \E p \in Callers : SetErgMode(p)
  \/ \E p \in Callers : SetGradient(p)
  \/ \E p \in Callers : SetRiderCharacteristics(p)

Spec == Init /\ [][Next]_vars

(* ------------------------------------------------------------ data stream *)
WAHOO_DATA_CHAR_UUID == "wahoo_data"
WAHOO_TRAINER_CONTROL_UUID == "wahoo_control"
CYCLING_POWER_MEASUREMENT_UUID == "cycling_power"
CSC_MEASUREMENT_UUID == "csc"
INDOOR_BIKE_DATA_UUID == "indoor_bike"

(* Line 294: the unlock sequence. *)
UnlockCommand == <<32, 238, 252>>

(* What an awaited transport call (write_gatt_char, start_notify) does. *)
TransportOutcomes == {"ok", "BleakError"}

(* The worker that connects (DevicesScreen.connect_device,               *)
(* CrankTUI.auto_reconnect_device) and the riding screen's workers, which *)
(* use the same BLEClient through the ride state.                         *)
Connector == 1
Rider == 2

(* connect() returned success in the step before: the worker goes on to  *)
(* start_data_stream() without a suspension in between.                   *)
StreamDue == ret.op = "connect" /\ ret.ok

StreamReturn(p, success) ==
  Return(p, Returned("start_data_stream", success, ""))

(* Lines 278-296, up to the first await.  _rider_weight_kg is None from  *)
(* __init__ on (set_rider_weight has no caller), so lines 305-310 are    *)
(* never entered.                                                        *)
StreamStart(p) ==
  /\ pc[p] = "idle"
  /\ failed' = {}
  /\ IF ~IsConnected \/ client = None
     THEN /\ StreamReturn(p, FALSE)
          /\ gattLog' = NoWrite
          /\ attempts' = {}
          /\ UNCHANGED unlockWrites
     ELSE IF protocol = FTMS_SERVICE_UUID
     THEN /\ pc' = [pc EXCEPT ![p] = "s_ftms"]
          /\ ret' = NoRet
          /\ gattLog' = NoWrite
          /\ attempts' = {INDOOR_BIKE_DATA_UUID}
          /\ UNCHANGED <<loc, unlockWrites>>
     ELSE IF protocol = WAHOO_SERVICE_UUID
     THEN /\ pc' = [pc EXCEPT ![p] = "s_unlock"]
          /\ ret' = NoRet
          /\ gattLog' = UnlockCommand
          /\ attempts' = {}
          /\ unlockWrites' = [unlockWrites EXCEPT ![client] = @ + 1]
          /\ UNCHANGED loc
     ELSE /\ StreamReturn(p, FALSE)
          /\ gattLog' = NoWrite
          /\ attempts' = {}
          /\ UNCHANGED unlockWrites
  /\ UNCHANGED <<client, link, created, device_address, device_name, protocol,
                 subs, codecVars, decoderVars, appVars>>

(* subs[t] holds the characteristics whose start_notify on transport t   *)
(* succeeded: the notifications t can deliver while its link is up.      *)
Subscribed(out, char) ==
  IF out = "ok" /\ client # None
  THEN [subs EXCEPT ![client] = @ \cup {char}]
  ELSE subs

(* Lines 285-287 resume; a failure is taken by line 343. *)
StreamFtmsResume(p) ==
  /\ pc[p] = "s_ftms"
  /\ \E out \in TransportOutcomes :
       /\ StreamReturn(p, out = "ok")
       /\ failed' = IF out = "ok" THEN failed ELSE failed \cup attempts
       /\ subs' = Subscribed(out, INDOOR_BIKE_DATA_UUID)
  /\ gattLog' = NoWrite
  /\ UNCHANGED <<client, link, created, device_address, device_name, protocol,
                 attempts, unlockWrites, codecVars, decoderVars, appVars>>

(* Lines 312-313: the vendor data subscription, inside the outer try     *)
(* only.  On a _client that is None the attribute lookup raises at once. *)
SubscribeData(p) ==
  /\ attempts' = attempts \cup {WAHOO_DATA_CHAR_UUID}
  /\ IF client = None
     THEN /\ failed' = failed \cup {WAHOO_DATA_CHAR_UUID}
          /\ StreamReturn(p, FALSE)
     ELSE /\ pc' = [pc EXCEPT ![p] = "s_data"]
          /\ ret' = NoRet
          /\ UNCHANGED <<loc, failed>>

(* Lines 316-339: the subscriptions that have a try of their own, chars  *)
(* being those still to come; after the last one, return True.           *)
SubscribeRest(p, chars, failedNow) ==
  IF chars = <<>> \/ client = None
  THEN /\ attempts' = attempts \cup Range(chars)
       /\ failed' = failedNow \cup Range(chars)
       /\ StreamReturn(p, TRUE)
  ELSE /\ attempts' = attempts \cup {Head(chars)}
       /\ failed' = failedNow
       /\ pc' = [pc EXCEPT ![p] = "s_optional"]
       /\ loc' = [loc EXCEPT ![p].svcs = chars]
       /\ ret' = NoRet

(* Line 296 resumes: the unlock write returned (then line 297 sleeps) or *)
(* raised (line 299 takes it, then line 312).                            *)
StreamUnlockResume(p) ==
  /\ pc[p] = "s_unlock"
  /\ \E out \in TransportOutcomes :
       IF out = "ok"
       THEN /\ pc' = [pc EXCEPT ![p] = "s_sleep"]
            /\ ret' = NoRet
            /\ UNCHANGED <<loc, attempts, failed>>
       ELSE SubscribeData(p)
  /\ gattLog' = NoWrite
  /\ UNCHANGED <<client, link, created, device_address, device_name, protocol,
                 unlockWrites, subs, codecVars, decoderVars, appVars>>

(* Line 297 resumes. *)
StreamSleepResume(p) ==
  /\ pc[p] = "s_sleep"
  /\ SubscribeData(p)
  /\ gattLog' = NoWrite
  /\ UNCHANGED <<client, link, created, device_address, device_name, protocol,
                 unlockWrites, subs, codecVars, decoderVars, appVars>>

(* Line 312 resumes: a failure leaves through line 343. *)
StreamDataResume(p) ==
  /\ pc[p] = "s_data"
  /\ \E out \in TransportOutcomes :
       /\ subs' = Subscribed(out, WAHOO_DATA_CHAR_UUID)
       /\ IF out = "ok"
          THEN SubscribeRest(p, <<WAHOO_TRAINER_CONTROL_UUID,
                                  CYCLING_POWER_MEASUREMENT_UUID,
                                  CSC_MEASUREMENT_UUID>>, failed)
          ELSE /\ failed' = failed \cup {WAHOO_DATA_CHAR_UUID}
               /\ StreamReturn(p, FALSE)
               /\ UNCHANGED attempts
  /\ gattLog' = NoWrite
  /\ UNCHANGED <<client, link, created, device_address, device_name, protocol,
                 unlockWrites, codecVars, decoderVars, appVars>>

(* Lines 317, 325, 333 resume: whatever the outcome, the next try runs. *)
StreamOptionalResume(p) ==
  /\ pc[p] = "s_optional"
  /\ \E out \in TransportOutcomes :
       /\ subs' = Subscribed(out, Head(loc[p].svcs))
       /\ SubscribeRest(p, Tail(loc[p].svcs),
                        IF out = "ok" THEN failed
                        ELSE failed \cup {Head(loc[p].svcs)})
  /\ gattLog' = NoWrite
  /\ UNCHANGED <<client, link, created, device_address, device_name, protocol,
                 unlockWrites, codecVars, decoderVars, appVars>>

(* The connecting worker and the riding screen's commands, interleaved. *)
NextStream ==
  \/ StreamDue /\ StreamStart(Connector)
  \/ ~StreamDue /\ \E a \in Addresses : ConnectStart(Connector, a)
  \/ ConnectAfterDisconnect(Connector)
  \/ ConnectResume(Connector)
  \/ ConnectExceptResume(Connector)
  \/ ConnectEnumerate(Connector)
  \/ ConnectNoServiceResume(Connector)
  \/ ~StreamDue /\ DisconnectStart(Connector)
  \/ DisconnectResume(Connector)
  \/ StreamFtmsResume(Connector)
  \/ StreamUnlockResume(Connector)
  \/ StreamSleepResume(Connector)
  \/ StreamDataResume(Connector)
  \/ StreamOptionalResume(Connector)
  \/ ~StreamDue /\ \E t \in Transports : LinkDrop(t)
  \/ ~StreamDue /\ SetResistanceLevel(Rider)
  \/ ~StreamDue /\ SetErgMode(Rider)
  \/ ~StreamDue /\ SetGradient(Rider)
  \/ ~StreamDue /\ SetRiderCharacteristics(Rider)

SpecStream == Init /\ [][NextStream]_vars

(* ------------------------------------------------------------ ride screen *)
bleVars ==
  <<client, link, created, device_address, device_name, protocol, pc, loc,
    ret, gattLog, codecVars, decoderVars, streamVars>>
nonRideVars == <<bleVars, shared, snapshot, calls, solver, grader, steady, odo>>

(* get_metrics (state.py 41-56): a copy, field by field. *)
GetMetrics(m) == [f \in RideFields |-> m[f]]

UpdateMetricsSkipPower(m, kw) ==
  [f \in DOMAIN m |->
     IF f \in DOMAIN kw /\ f # "power_w" THEN kw[f] ELSE m[f]]

(* update_metrics (state.py 82-85): every keyword that names an          *)
(* attribute of the metrics is set, the others are dropped; all inside   *)
(* one hold of the lock, without a suspension.  Time is not modelled:    *)
(* the distance and elapsed-time integration of lines 66-80 is left out. *)
UpdateMetrics(m, kw) ==
  [f \in DOMAIN m |-> IF f \in DOMAIN kw THEN kw[f] ELSE m[f]]

(* metrics.<name> raises AttributeError unless the object has the field. *)
HasAttr(m, name) == name \in DOMAIN m

SmoothGradientNoLimit(target, current, max_change) == target

SmoothGradientNoSnap(target, current, max_change) ==
  IF target - current > 0 THEN current + max_change
  ELSE current - max_change

(* _smooth_gradient (riding.py 931-948). *)
SmoothGradient(target, current, max_change) ==
  LET diff == target - current
  IN IF diff <= max_change /\ -diff <= max_change THEN target
     ELSE IF diff > 0 THEN current + max_change
     ELSE current - max_change

(* One percentage point, in hundredths: max_change=1.0 of line 1044. *)
MaxChange == 100

(* The target grades _calculate_grade can return, and the resistance     *)
(* scales 0.3 .. 2.0 in tenths.                                          *)
TargetGrades == {g * 50 : g \in (-2 * MaxTargetGrade)..(2 * MaxTargetGrade)}
ScaleMin == 3
ScaleMax == 20

Begin(s) == [s EXCEPT !.event = NoEvent]
Finish(s, w) == [s EXCEPT !.wk[w] = Idle]
Suspend(s, w, at, then) == [s EXCEPT !.wk[w] = [at |-> at, then |-> then]]
AliveTasks(s, kind) ==
  {i \in DOMAIN s.tasks :
     s.tasks[i].kind = kind /\ s.tasks[i].status = "alive"}

(* _sim_mode_loop lines 1029-1066 for the metrics m read in lines        *)
(* 1021-1027 and the target grade of line 1034: smooth, scale, send,     *)
(* write the ride state.                                                 *)
TickBody(s, m, target) ==
  LET smoothed == SmoothGradient(target, s.last_gradient, MaxChange)
      scaled_grade == smoothed * m.resistance_scale
  IN [s EXCEPT !.target_gradient = target,
               !.last_gradient = smoothed,
               !.metrics = UpdateMetrics(@, [grade_pct |-> scaled_grade,
                                             mode |-> "SIM"]),
               !.event.wrote = "simloop"]

(* _start_sim_mode lines 1000-1004, after the rider characteristics. *)
StartSimFinish(s, w) ==
  Finish([s EXCEPT !.last_gradient = 0,
                   !.target_gradient = 0,
                   !.metrics = UpdateMetrics(@, [mode |-> "SIM"]),
                   !.tasks = Append(@, [kind |-> "sim", status |-> "alive"]),
                   !.sim_task = Len(s.tasks) + 1], w)

(* _start_sim_mode lines 985-998: the check of sim_task, then, on a      *)
(* connected trainer, the awaited set_rider_characteristics write.       *)
StartSimMode(s, w) ==
  IF s.sim_task # None THEN Finish(s, w)
  ELSE IF s.connected THEN Suspend(s, w, "ssm_write", "none")
  ELSE StartSimFinish(s, w)

(* What the caller does after the stop it awaited: _pause_ride shows the *)
(* modal (682), _toggle_mode sets LIVE (766) or starts SIM mode (779).   *)
Continue(s, w, then) ==
  IF then = "modal" THEN Finish([s EXCEPT !.modal = TRUE], w)
  ELSE IF then = "live"
  THEN Finish([s EXCEPT !.metrics = UpdateMetrics(@, [mode |-> "LIVE"])], w)
  ELSE StartSimMode(s, w)

(* _stop_sim_mode (1006-1014): cancel and await sim_task.  Awaiting a    *)
(* task that ended with an exception re-raises it, which only            *)
(* CancelledError is caught for; the worker ends with it.                *)
StopSimMode(s, w, then) ==
  IF s.sim_task = None
  THEN Continue([s EXCEPT !.event.stop = "returned"], w, then)
  ELSE IF s.tasks[s.sim_task].status = "alive"
  THEN Suspend([s EXCEPT !.tasks[s.sim_task].status = "cancelled"],
               w, "stop_wait", then)
  ELSE IF s.tasks[s.sim_task].status = "failed"
  THEN Finish([s EXCEPT !.event.stop = "raised"], w)
  ELSE Continue([s EXCEPT !.sim_task = None, !.event.stop = "returned"],
                w, then)

(* DemoSimulator.start (simulator.py 22-37). *)
SimulatorStart(s) ==
  IF s.running THEN s
  ELSE [s EXCEPT !.running = TRUE,
                 !.metrics = UpdateMetrics(@, [mode |-> "DEMO",
                                               start_time |-> 1]),
                 !.tasks = Append(@, [kind |-> "demo", status |-> "alive"]),
                 !.simulator_task = Len(s.tasks) + 1]

(* DemoSimulator.stop (simulator.py 39-48). *)
SimulatorStop(s, w, then) ==
  LET s1 == [s EXCEPT !.running = FALSE]
  IN IF s1.simulator_task = None THEN Continue(s1, w, then)
     ELSE IF s1.tasks[s1.simulator_task].status = "alive"
     THEN Suspend([s1 EXCEPT !.tasks[s1.simulator_task].status = "cancelled"],
                  w, "demo_wait", then)
     ELSE Continue([s1 EXCEPT !.simulator_task = None], w, then)

RideStep(s) == ride' = s /\ UNCHANGED nonRideVars

CanSpawn == Len(ride.tasks) < MaxTasks

(* _start_ride (625-659), started by action_stop_ride (616-623). *)
StartRide(w) ==
  /\ ride.wk[w] = Idle
  /\ ride.ride_state = "not_started"
  /\ CanSpawn
  /\ LET s == [Begin(ride) EXCEPT
                 !.ride_state = "riding",
                 !.metrics = UpdateMetrics(@, [start_time |-> 1,
                                               is_recording |-> 1])]
     IN IF ~s.connected
        THEN RideStep(Finish(SimulatorStart(
               [s EXCEPT !.metrics = UpdateMetrics(@, [mode |-> "DEMO"])]), w))
        ELSE RideStep(StartSimMode(s, w))

(* _pause_ride (661-682). *)
PauseRide(w) ==
  /\ ride.wk[w] = Idle
  /\ ride.ride_state = "riding"
  /\ ~ride.modal
  /\ LET s == [Begin(ride) EXCEPT !.ride_state = "paused"]
         mode == GetMetrics(s.metrics).mode
     IN IF mode = "DEMO" THEN RideStep(SimulatorStop(s, w, "modal"))
        ELSE IF mode = "SIM" THEN RideStep(StopSimMode(s, w, "modal"))
        ELSE RideStep(Continue(s, w, "modal"))

(* _resume_ride (684-703), started when the modal is dismissed with      *)
(* "continue" (705-714).                                                 *)
ResumeRide(w) ==
  /\ ride.wk[w] = Idle
  /\ ride.modal
  /\ CanSpawn
  /\ LET s == [Begin(ride) EXCEPT !.modal = FALSE, !.ride_state = "riding"]
         mode == GetMetrics(s.metrics).mode
     IN IF mode = "DEMO"
        THEN RideStep(Finish(
               [s EXCEPT !.running = TRUE,
                         !.tasks = Append(@, [kind |-> "demo",
                                              status |-> "alive"]),
                         !.simulator_task = Len(s.tasks) + 1], w))
        ELSE IF mode = "SIM" THEN RideStep(StartSimMode(s, w))
        ELSE RideStep(Finish(s, w))

(* _toggle_mode (744-791), the app not being in --demo mode; the final   *)
(* else of line 783 needs a mode other than SIM, LIVE and DEMO.          *)
ToggleMode(w) ==
  /\ ride.wk[w] = Idle
  /\ ~ride.modal
  /\ CanSpawn
  /\ LET s == Begin(ride)
         mode == GetMetrics(s.metrics).mode
     IN IF mode = "SIM"
        THEN IF s.connected THEN RideStep(StopSimMode(s, w, "live"))
             ELSE RideStep(Finish(s, w))
        ELSE IF mode = "LIVE"
        THEN RideStep(Finish(SimulatorStart(
               [s EXCEPT !.metrics = UpdateMetrics(@, [mode |-> "DEMO"])]), w))
        ELSE IF s.connected THEN RideStep(SimulatorStop(s, w, "sim"))
        ELSE RideStep(Finish(s, w))

(* _adjust_resistance_scale (833-854) for delta in tenths. *)
AdjustResistanceScale(w, delta) ==
  /\ ride.wk[w] = Idle
  /\ ~ride.modal
  /\ LET s == Begin(ride)
         m == GetMetrics(s.metrics)
     IN IF m.mode # "SIM" THEN RideStep(Finish(s, w))
        ELSE IF ~HasAttr(m, "resistance_scale")
        THEN RideStep(Finish([s EXCEPT !.event.scale = "AttributeError"], w))
        ELSE RideStep(Finish(
               [s EXCEPT !.metrics =
                           UpdateMetrics(@, [resistance_scale |->
                             Clamp(ScaleMin, ScaleMax,
                                   m.resistance_scale + delta)]),
                         !.event.scale = "read"], w))

(* Line 997 resumes: the rider characteristics write is over. *)
StartSimResume(w) ==
  /\ ride.wk[w].at = "ssm_write"
  /\ CanSpawn
  /\ RideStep(StartSimFinish(Begin(ride), w))

(* Line 1011 resumes with CancelledError: line 1014. *)
StopSimResume(w) ==
  /\ ride.wk[w].at = "stop_wait"
  /\ RideStep(Continue([Begin(ride) EXCEPT !.sim_task = None,
                                            !.event.stop = "returned"],
                       w, ride.wk[w].then))

(* simulator.py line 45 resumes: line 48. *)
SimulatorStopResume(w) ==
  /\ ride.wk[w].at = "demo_wait"
  /\ RideStep(Continue([Begin(ride) EXCEPT !.simulator_task = None],
                       w, ride.wk[w].then))

(* One iteration of _sim_mode_loop (1016-1072), from its start or from   *)
(* the sleep of line 1069, for a target grade of the route.              *)
SimLoopRun(i) ==
  /\ i \in AliveTasks(ride, "sim")
  /\ LET s == Begin(ride)
         m == GetMetrics(s.metrics)
     IN IF ~HasAttr(m, "resistance_scale")
        THEN RideStep([s EXCEPT !.tasks[i].status = "failed",
                                !.event.scale = "AttributeError"])
        ELSE IF m.mode # "SIM"
        THEN RideStep([s EXCEPT !.tasks[i].status = "done"])
        ELSE \E target \in TargetGrades : RideStep(TickBody(s, m, target))

(* One iteration of DemoSimulator._simulation_loop (50-57, 59-106). *)
DemoLoopRun(i) ==
  /\ i \in AliveTasks(ride, "demo")
  /\ IF ~ride.running
     THEN RideStep([Begin(ride) EXCEPT !.tasks[i].status = "done"])
     ELSE RideStep([Begin(ride) EXCEPT
                      !.metrics = UpdateMetrics(@,
                        [speed_kmh |-> 25, power_w |-> 200,
                         cadence_rpm |-> 80, distance_m |-> 3,
                         elapsed_time_s |-> 1, grade_pct |-> 0]),
                      !.event.wrote = "demo"])

(* auto_reconnect_device (app.py 216-242) completes: the trainer is      *)
(* connected and its notifications go to _handle_trainer_data.           *)
BleConnect ==
  /\ ~ride.connected
  /\ RideStep([Begin(ride) EXCEPT !.connected = TRUE])

(* CrankTUI._update_state (app.py 253-279) for one notification. *)
UpdateState ==
  /\ ride.connected
  /\ RideStep([Begin(ride) EXCEPT
                 !.metrics = UpdateMetrics(@, [power_w |-> 150,
                                               cadence_rpm |-> 90,
                                               speed_kmh |-> 30]),
                 !.event.wrote = "ble"])

NextRide ==
  \/ \E w \in Workers : StartRide(w)
  \/ \E w \in Workers : PauseRide(w)
  \/ \E w \in Workers : ResumeRide(w)
  \/ \E w \in Workers : ToggleMode(w)
  \/ \E w \in Workers, delta \in {-1, 1} : AdjustResistanceScale(w, delta)
  \/ \E w \in Workers : StartSimResume(w)
  \/ \E w \in Workers : StopSimResume(w)
  \/ \E w \in Workers : SimulatorStopResume(w)
  \/ \E i \in 1..MaxTasks : SimLoopRun(i)
  \/ \E i \in 1..MaxTasks : DemoLoopRun(i)
  \/ BleConnect
  \/ UpdateState

SpecRide == Init /\ [][NextRide]_vars

(* The loop body on its own: SIM mode is started (lines 1000-1003, also  *)
(* what a pause and resume puts between two ticks), then ticks for every *)
(* target grade and every resistance scale the metrics can carry.        *)
Tick(target, scale) ==
  /\ ride.metrics.mode = "SIM"
  /\ RideStep(TickBody(Begin(ride),
                       ("resistance_scale" :> scale) @@ GetMetrics(ride.metrics),
                       target))

TickRestart ==
  /\ ride.sim_task = None
  /\ RideStep([Begin(ride) EXCEPT
                 !.last_gradient = 0,
                 !.target_gradient = 0,
                 !.metrics = UpdateMetrics(@, [mode |-> "SIM"])])

NextTick ==
  \/ \E target \in TargetGrades, scale \in ScaleMin..ScaleMax :
       Tick(target, scale)
  \/ TickRestart

SpecTick == Init /\ [][NextTick]_vars

(* The loop on a stretch of constant grade: from some tick on            *)
(* _calculate_grade returns the same target on every tick (steady.on),   *)
(* the loop keeps running and nothing restarts it.  steady remembers     *)
(* the target, the smoothed grade the stretch was entered with and the   *)
(* ticks made on it, up to SteadyTicks.                                  *)
SteadyTicks == 2 * MaxTargetGrade + 2

FreeTick(target, scale) ==
  /\ ~steady.on
  /\ Tick(target, scale)

FreeRestart ==
  /\ ~steady.on
  /\ TickRestart

TargetSteady(target) ==
  /\ ~steady.on
  /\ ride.metrics.mode = "SIM"
  /\ steady' = [on |-> TRUE, target |-> target,
                first |-> ride.last_gradient, ticks |-> 0]
  /\ UNCHANGED <<ride, shared, snapshot, calls, solver, grader, odo, bleVars>>

SteadyTick(scale) ==
  /\ steady.on
  /\ steady.ticks < SteadyTicks
  /\ ride.metrics.mode = "SIM"
  /\ ride' = TickBody(Begin(ride),
                      ("resistance_scale" :> scale) @@ GetMetrics(ride.metrics),
                      steady.target)
  /\ steady' = [steady EXCEPT !.ticks = @ + 1]
  /\ UNCHANGED <<shared, snapshot, calls, solver, grader, odo, bleVars>>

NextSteady ==
  \/ \E target \in TargetGrades, scale \in ScaleMin..ScaleMax :
       FreeTick(target, scale)
  \/ FreeRestart
  \/ \E target \in TargetGrades : TargetSteady(target)
  \/ \E scale \in ScaleMin..ScaleMax : SteadyTick(scale)

SpecSteady == Init /\ [][NextSteady]_vars

(* The loop body with the trainer session it sends to (lines 1061-1066): *)
(* the connect worker connects, the link may drop, and every tick that   *)
(* finds the client connected awaits set_gradient and then writes the    *)
(* ride state.  Targets reach half of MaxGrade, so that scaled grades    *)
(* pass the 20 % of set_gradient's clamp; scaled_grade is in hundredths. *)
SendTargets == {0, MaxGrade \div 2}
SendScales == {10, ScaleMax}

SendTick(target, scale) ==
  /\ ride.metrics.mode = "SIM"
  /\ pc[Rider] = "idle"
  /\ LET s == Begin(ride)
         m == ("resistance_scale" :> scale) @@ GetMetrics(ride.metrics)
         smoothed == SmoothGradient(target, s.last_gradient, MaxChange)
         scaled_grade == (smoothed * scale) \div 10
     IN IF IsConnected
        THEN /\ IF ~CommandGuard
                THEN /\ Return(Rider, Returned("set_gradient", FALSE, ""))
                     /\ gattLog' = NoWrite
                ELSE WriteCharacteristic(Rider, "set_gradient",
                                         GradientCommand(scaled_grade))
             /\ ride' = TickBody(s, m, target)
        ELSE /\ ret' = NoRet
             /\ gattLog' = NoWrite
             /\ UNCHANGED <<pc, loc>>
             /\ ride' = [s EXCEPT !.target_gradient = target,
                                  !.last_gradient = smoothed]
  /\ UNCHANGED <<client, link, created, device_address, device_name,
                 protocol, codecVars, decoderVars, streamVars,
                 shared, snapshot, calls, solver, grader, steady, odo>>

NextSend ==
  \/ \E a \in Addresses : ConnectStart(Connector, a)
  \/ ConnectAfterDisconnect(Connector)
  \/ ConnectResume(Connector)
  \/ ConnectExceptResume(Connector)
  \/ ConnectEnumerate(Connector)
  \/ ConnectNoServiceResume(Connector)
  \/ \E t \in Transports : LinkDrop(t)
  \/ \E target \in SendTargets, scale \in SendScales :
       SendTick(target, scale)
  \/ TickRestart

SpecSend == Init /\ [][NextSend]_vars

(* ------------------------------------------------------------ ride state *)
(* The keyword names of the update_metrics calls of the writers:         *)
(* _update_state (app.py 274-279), DemoSimulator._update_metrics         *)
(* (simulator.py 99-106) and start (31-34), _sim_mode_loop (riding.py    *)
(* 1066), _adjust_resistance_scale (850).                                *)
UpdateCalls ==
  {{"power_w", "cadence_rpm", "speed_kmh"},
   {"speed_kmh", "power_w", "cadence_rpm", "distance_m", "elapsed_time_s",
    "grade_pct"},
   {"mode", "start_time"},
   {"grade_pct", "mode"},
   {"resistance_scale"}}

(* RideState.update_metrics (58-88): call number n sets its keywords. *)
UpdateCall(kw) ==
  /\ Len(calls) < MaxUpdates
  /\ shared' = UpdateMetrics(shared, [k \in kw |-> Len(calls) + 1])
  /\ calls' = Append(calls, kw)
  /\ UNCHANGED <<snapshot, ride, solver, grader, steady, odo, bleVars>>

(* RideState.get_metrics (41-56). *)
GetCall ==
  /\ snapshot' = GetMetrics(shared)
  /\ UNCHANGED <<shared, calls, ride, solver, grader, steady, odo, bleVars>>

NextState ==
  \/ \E kw \in UpdateCalls : UpdateCall(kw)
  \/ GetCall

SpecState == Init /\ [][NextState]_vars

(* ------------------------------------------------------ ride distance *)
(* The writers of the ride distance on one event loop.  No call         *)
(* suspends between taking and releasing the state lock, and the lock    *)
(* is never held across a suspension, so every call below is one step;   *)
(* so is the demo simulator's get_metrics followed by update_metrics.    *)
(* Trainer speeds are 0 or 30 km/h, the demo's 20..30 km/h; the demo's   *)
(* route ends after 10 m (72 units).                                     *)
TrainerSpeeds == {0, 30}
DemoSpeeds == {20, 25, 30}
DemoRouteEnd == 72

(* state.py lines 66-70: the distance after the integration step. *)
Integrated(o, speed_kmh) ==
  IF o.last_update_time # Unset
  THEN o.distance_m + speed_kmh * (o.now - o.last_update_time)
  ELSE o.distance_m

(* time.time() moves on by half a second. *)
ClockTick ==
  /\ odo.now < MaxClock
  /\ odo' = [odo EXCEPT !.now = @ + 1, !.op = "none"]
  /\ UNCHANGED <<ride, shared, snapshot, calls, solver, grader, steady,
                 bleVars>>

(* CrankTUI._update_state (app.py 274-279): speed_kmh is a keyword. *)
TrainerUpdate(speed_kmh) ==
  /\ odo' = [odo EXCEPT !.distance_m = Integrated(odo, speed_kmh),
                        !.last_update_time = odo.now,
                        !.op = "ble"]
  /\ UNCHANGED <<ride, shared, snapshot, calls, solver, grader, steady,
                 bleVars>>

(* _sim_mode_loop line 1066: grade_pct and mode only. *)
GradeUpdate ==
  /\ odo' = [odo EXCEPT !.last_update_time = odo.now, !.op = "sim"]
  /\ UNCHANGED <<ride, shared, snapshot, calls, solver, grader, steady,
                 bleVars>>

(* DemoSimulator._update_metrics (simulator.py 82-106): the distance     *)
(* read, advanced by half a second of speed, capped at the route end,    *)
(* and passed as the distance_m keyword, which update_metrics sets       *)
(* after its own integration step (state.py 82-85).                      *)
DemoUpdate(speed_kmh) ==
  /\ LET current_metrics == [distance_m |-> odo.distance_m]
         distance_m == current_metrics.distance_m + speed_kmh
         capped == IF distance_m > DemoRouteEnd THEN DemoRouteEnd
                   ELSE distance_m
     IN odo' = [odo EXCEPT !.distance_m = capped,
                           !.last_update_time = odo.now,
                           !.op = "demo"]
  /\ UNCHANGED <<ride, shared, snapshot, calls, solver, grader, steady,
                 bleVars>>

(* RideState.reset (state.py 90-94). *)
StateReset ==
  /\ odo' = [odo EXCEPT !.distance_m = 0, !.last_update_time = Unset,
                        !.op = "reset"]
  /\ UNCHANGED <<ride, shared, snapshot, calls, solver, grader, steady,
                 bleVars>>

NextDistance ==
  \/ ClockTick
  \/ \E speed_kmh \in TrainerSpeeds : TrainerUpdate(speed_kmh)
  \/ GradeUpdate
  \/ \E speed_kmh \in DemoSpeeds : DemoUpdate(speed_kmh)
  \/ StateReset

SpecDistance == Init /\ [][NextDistance]_vars

(* --------------------------------------------------- the speed solver *)
(* power_to_speed (physics.py 13-69) applied to powers, grades and       *)
(* masses of a grid and to the non-finite floats, one step per loop      *)
(* iteration.  50.874 W and 50.924 W are two powers between which the    *)
(* loop goes from three passes to four.                                  *)
SolverPowers ==
  {Fin(w * 250 * Unit) : w \in (-1)..MaxSolverPower}
    \cup {Fin(1), Fin(508740), Fin(509240), NegInf, PosInf, NaN}
SolverGrades ==
  {Fin(g * 5 * Unit) : g \in (-MaxSolverGrade)..MaxSolverGrade}
    \cup {NegInf, PosInf, NaN}
SolverMasses ==
  {Fin(m * 50 * Unit) : m \in 0..MaxSolverMass} \cup {PosInf, NaN}

(* Lines 40-44. *)
TotalForce(s) ==
  LET force_gravity == FMul(FMul(s.total_mass_kg, Fin(GRAVITY)), s.grade)
      force_rolling == FMul(FMul(Fin(ROLLING_RESISTANCE), s.total_mass_kg),
                            Fin(GRAVITY))
      force_air == FMul(FMul(FMul(FMul(Fin(Half),
                                       Fin(DRAG_COEFFICIENT_AREA)),
                                  Fin(AIR_DENSITY)), s.speed), s.speed)
  IN  FAdd(FAdd(force_gravity, force_rolling), force_air)

(* Lines 47-50. *)
PowerError(s) == FSub(FMul(TotalForce(s), s.speed), s.power_w)

(* Lines 59-60. *)
PowerSlope(s) ==
  LET dforce_dspeed == FMul(FMul(Fin(AIR_DENSITY),
                                 Fin(DRAG_COEFFICIENT_AREA)), s.speed)
  IN  FAdd(TotalForce(s), FMul(s.speed, dforce_dspeed))

(* Lines 63-64. *)
NewtonUpdate(s) ==
  IF FLt(Fin(SlopeTolerance), FAbs(PowerSlope(s)))
  THEN FSub(s.speed, FDiv(PowerError(s), PowerSlope(s)))
  ELSE s.speed

ClampSpeedUpperOnly(speed) == PyMin(speed, Fin(SpeedMax))

(* Line 67. *)
ClampSpeed(speed) == PyMax(Fin(SpeedMin), PyMin(speed, Fin(SpeedMax)))

(* Lines 27-34: the solver as the call leaves it. *)
SolverEnter(p, g, m) ==
  IF FLe(p, Fin(0))
  THEN [pc |-> "done", power_w |-> p, grade_pct |-> g,
        total_mass_kg |-> m, grade |-> NoResult, speed |-> NoResult,
        iter |-> 0, result |-> Fin(0)]
  ELSE [pc |-> "loop", power_w |-> p, grade_pct |-> g,
        total_mass_kg |-> m, grade |-> FDiv(g, Fin(PercentPerUnit)),
        speed |-> Fin(InitialSpeed), iter |-> 0, result |-> NoResult]

(* One pass of the loop body, lines 38-67: break, or update and clamp. *)
SolverPass(s) ==
  IF FLt(FAbs(PowerError(s)), Fin(PowerTolerance))
  THEN [s EXCEPT !.pc = "return", !.iter = @ + 1]
  ELSE [s EXCEPT !.speed = ClampSpeed(NewtonUpdate(s)), !.iter = @ + 1]

(* Line 69. *)
SolverExit(s) ==
  [s EXCEPT !.pc = "done", !.result = PyMax(Fin(0), s.speed)]

(* The value a call returns: the passes run to the end. *)
RECURSIVE SpeedFrom(_)
SpeedFrom(s) ==
  IF s.pc = "done" THEN s.result
  ELSE IF s.pc = "loop" /\ s.iter < Iterations THEN SpeedFrom(SolverPass(s))
  ELSE SpeedFrom(SolverExit(s))

SpeedOf(p, g, m) == SpeedFrom(SolverEnter(p, g, m))

(* The call. *)
PowerToSpeed(p, g, m) ==
  /\ solver.pc \in {"idle", "done"}
  /\ solver' = SolverEnter(p, g, m)
  /\ UNCHANGED <<ride, shared, snapshot, calls, grader, steady, odo, bleVars>>

SolverIterate ==
  /\ solver.pc = "loop"
  /\ solver.iter < Iterations
  /\ solver' = SolverPass(solver)
  /\ UNCHANGED <<ride, shared, snapshot, calls, grader, steady, odo, bleVars>>

(* The return, after a break or after the last pass. *)
SolverReturn ==
  /\ \/ solver.pc = "return"
     \/ solver.pc = "loop" /\ solver.iter = Iterations
  /\ solver' = SolverExit(solver)
  /\ UNCHANGED <<ride, shared, snapshot, calls, grader, steady, odo, bleVars>>

NextSolver ==
  \/ \E p \in SolverPowers, g \in SolverGrades, m \in SolverMasses :
       PowerToSpeed(p, g, m)
  \/ SolverIterate
  \/ SolverReturn

SpecSolver == Init /\ [][NextSolver]_vars

(* ---------------------------------------------------- the target grade *)
(* Routes as a route file gives them: up to MaxRoutePoints points on a   *)
(* 100 m grid, ordered by distance (two points may share a distance),    *)
(* and a distance_km that the file states on its own, so the route end   *)
(* distance_km * 1000 may lie before, at or after the last point.  The   *)
(* rider's position is any distance of a 50 m grid up to 100 m past      *)
(* the last grid point.                                                  *)
RouteDistances == {Fin(i * 100 * Unit) : i \in 0..(MaxRoutePoints - 1)}
RouteElevations == {Fin(100 * Unit), Fin(110 * Unit)}
RoutePoint == [distance_m : RouteDistances, elevation_m : RouteElevations]
Ordered(points) ==
  \A i \in 1..(Len(points) - 1) :
    FLe(points[i].distance_m, points[i + 1].distance_m)
PointLists ==
  {<<>>} \cup
    {points \in UNION {[1..n -> RoutePoint] : n \in 1..MaxRoutePoints} :
       Ordered(points)}
RouteLengthsKm == {Fin(i * 1000) : i \in 0..(MaxRoutePoints - 1)}
Positions == {Fin(i * 50 * Unit) : i \in 0..(2 * MaxRoutePoints)}

(* a / b as python evaluates it: ZeroDivisionError for a zero divisor. *)
ZeroDivision == [k |-> "raise", v |-> 0]
Quotient(a, b) ==
  IF b.k = "fin" /\ b.v = 0 THEN ZeroDivision ELSE FDiv(a, b)

(* route.py lines 40-49: the loop from segment i on. *)
RECURSIVE Interpolate(_, _, _)
Interpolate(points, distance_m, i) ==
  IF i > Len(points) - 1 THEN points[Len(points)].elevation_m
  ELSE LET p1 == points[i]
           p2 == points[i + 1]
           ratio == Quotient(FSub(distance_m, p1.distance_m),
                             FSub(p2.distance_m, p1.distance_m))
       IN  IF FLe(p1.distance_m, distance_m) /\ FLe(distance_m, p2.distance_m)
           THEN IF ratio = ZeroDivision THEN ZeroDivision
                ELSE FAdd(p1.elevation_m,
                          FMul(ratio, FSub(p2.elevation_m, p1.elevation_m)))
           ELSE Interpolate(points, distance_m, i + 1)

(* route.py lines 26-49. *)
GetElevationAtDistance(points, distance_m) ==
  IF Len(points) = 0 THEN Fin(0)
  ELSE IF FLe(distance_m, points[1].distance_m)
       THEN points[1].elevation_m
  ELSE IF FLe(points[Len(points)].distance_m, distance_m)
       THEN points[Len(points)].elevation_m
  ELSE Interpolate(points, distance_m, 1)

LookaheadDistanceUnclamped(distance_m, max_distance) ==
  FAdd(distance_m, Fin(Lookahead))

(* riding.py lines 913-917. *)
LookaheadDistance(distance_m, max_distance) ==
  IF FLt(max_distance, FAdd(distance_m, Fin(Lookahead)))
  THEN max_distance
  ELSE FAdd(distance_m, Fin(Lookahead))

(* riding.py lines 906-929: the call as it ends, with its locals. *)
GradeCall(points, distance_km, distance_m) ==
  LET max_distance == FMul(distance_km, Fin(MetresPerKm))
      current_elevation == GetElevationAtDistance(points, distance_m)
      lookahead_distance == LookaheadDistance(distance_m, max_distance)
      lookahead_elevation ==
        GetElevationAtDistance(points, lookahead_distance)
      elevation_change == FSub(lookahead_elevation, current_elevation)
      horizontal_distance == FSub(lookahead_distance, distance_m)
      grade ==
        IF ZeroDivision \in {current_elevation, lookahead_elevation}
        THEN ZeroDivision
        ELSE IF horizontal_distance = Fin(0) THEN Fin(0)
        ELSE FMul(Quotient(elevation_change, horizontal_distance),
                  Fin(Percent))
  IN  IF Len(points) < 2
      THEN [pc |-> "done", points |-> points, max_distance |-> max_distance,
            distance_m |-> distance_m, lookahead_distance |-> NoResult,
            result |-> Fin(0)]
      ELSE [pc |-> "done", points |-> points, max_distance |-> max_distance,
            distance_m |-> distance_m,
            lookahead_distance |-> lookahead_distance, result |-> grade]

(* The call, riding.py line 1037. *)
CalculateGrade(points, distance_km, distance_m) ==
  /\ grader.pc = "idle"
  /\ grader' = GradeCall(points, distance_km, distance_m)
  /\ UNCHANGED <<ride, shared, snapshot, calls, solver, steady, odo, bleVars>>

(* The caller has taken the returned grade. *)
GradeTaken ==
  /\ grader.pc = "done"
  /\ grader' = NoGradeCall
  /\ UNCHANGED <<ride, shared, snapshot, calls, solver, steady, odo, bleVars>>

NextGrader ==
  \/ \E points \in PointLists, distance_km \in RouteLengthsKm,
        distance_m \in Positions :
       CalculateGrade(points, distance_km, distance_m)
  \/ GradeTaken

SpecGrader == Init /\ [][NextGrader]_vars

(* ------------------------------------------------------- the codec spec *)
(* The encoders applied to every input of a bounded range. *)
GradeInputs == (-MaxGrade)..MaxGrade
LevelInputs == (-MaxLevel)..MaxLevel
PowerInputs == (-MaxPower)..MaxPower
WeightInputs == 0..MaxWeight
CrrInputs == 0..MaxCrr
CdaInputs == 0..MaxCda
(* <<weight, crr, cda>>: each argument over its range, the others at the *)
(* values the callers use.                                                *)
RiderInputs ==
  {<<w, DefaultCrr, DefaultCda>> : w \in WeightInputs}
    \cup {<<w, c, DefaultCda>> : w \in SessionWeights, c \in CrrInputs}
    \cup {<<w, DefaultCrr, a>> : w \in SessionWeights, a \in CdaInputs}

Encode(op, x, bytes) ==
  /\ encOp = "none"
  /\ encOp' = op
  /\ encIn' = x
  /\ encOut' = bytes
  /\ UNCHANGED <<client, link, created, device_address, device_name, protocol,
                 pc, loc, ret, gattLog, decoderVars, streamVars, appVars>>

EncodeResistanceLevel ==
  \E level \in LevelInputs :
    Encode("set_resistance_level", level, LoadLevelCommand(level))

EncodeErgMode ==
  \E watts \in PowerInputs : Encode("set_erg_mode", watts, ErgCommand(watts))

EncodeGradient ==
  \E g \in GradeInputs : Encode("set_gradient", g, GradientCommand(g))

EncodeRiderCharacteristics ==
  \E x \in RiderInputs :
    Encode("set_rider_characteristics", x, RiderCommand(x[1], x[2], x[3]))

NextCodec ==
  \/ EncodeRiderCharacteristics
  \/ EncodeResistanceLevel
  \/ EncodeErgMode
  \/ EncodeGradient

SpecCodec == Init /\ [][NextCodec]_vars

(* ------------------------------------------------- notification decoders *)
otherVars ==
  <<client, link, created, device_address, device_name, protocol,
    pc, loc, ret, gattLog, encOp, encIn, encOut, attempts, failed,
    unlockWrites, subs, ride, shared, snapshot, calls, solver, grader, steady, odo>>

(* data[lo:hi] of a bytes object: clipped to its length. *)
Slice(data, lo, hi) ==
  LET end == IF hi < Len(data) THEN hi ELSE Len(data)
  IN IF lo >= end THEN <<>> ELSE SubSeq(data, lo + 1, end)

RECURSIVE FromBytesLE(_)
FromBytesLE(b) == IF b = <<>> THEN 0 ELSE b[1] + 256 * FromBytesLE(Tail(b))

RECURSIVE Pow256(_)
Pow256(n) == IF n = 0 THEN 1 ELSE 256 * Pow256(n - 1)

(* int.from_bytes(..., signed=True): two's complement. *)
FromBytesSigned(b) ==
  LET u == FromBytesLE(b)
  IN IF 2 * u >= Pow256(Len(b)) THEN u - Pow256(Len(b)) ELSE u

Reading(p, c, v) ==
  [power_w |-> p, cadence_rpm |-> c, speed_kmh |-> v, distance_m |-> 0]

(* What on_reading can do when called: return, or raise. *)
CallbackOutcomes == {"ok", "RuntimeError"}

CallbackCaughtNever(e) == FALSE

(* The try around callback(parsed): except Exception. *)
CallbackCaught(e) == e \in {"RuntimeError"}

(* The try around each handler's body: except Exception. *)
ParseCaught(e) == e \in {"RuntimeError"}

(* callback(parsed) with outcome out, and where an exception is caught. *)
Invoke(parsed, out) ==
  [readings |-> <<parsed>>,
   cb |-> out,
   caught |-> IF out = "ok" THEN "none"
              ELSE IF CallbackCaught(out) THEN "callback"
              ELSE IF ParseCaught(out) THEN "handler"
              ELSE "none",
   escaped |-> out # "ok" /\ ~CallbackCaught(out) /\ ~ParseCaught(out)]

(* The early return of a handler: nothing stored, nothing delivered. *)
Discard(char, data) ==
  /\ notif' = [char |-> char, data |-> data]
  /\ delivery' = NoDelivery
  /\ UNCHANGED <<aggregateVars, wheelSeen>>

(* Frames a peripheral can send: every complete frame over a few values *)
(* of each field, alone and followed by up to MaxTrailing further bytes, *)
(* and one of them cut at every length.                                  *)
Pad(n) == [i \in 1..n |-> 255]
Extended(f) == {f \o Pad(n) : n \in 0..MaxTrailing}
Prefixes(f) == {SubSeq(f, 1, n) : n \in 0..Len(f)}
U16(v) == <<LowByte(v), HighByte(v)>>
U32(v) ==
  <<v % 256, (v \div 256) % 256, (v \div 65536) % 256,
    (v \div 16777216) % 256>>

VendorFrame(power, cadence, speed) == U16(power) \o U16(cadence) \o U16(speed)
VendorSamples == {<<200, 80, 1000>>, <<65535, 0, 1>>}
VendorFrames ==
  Prefixes(VendorFrame(200, 80, 1000))
    \cup UNION {Extended(VendorFrame(x[1], x[2], x[3])) : x \in VendorSamples}

PowerFrame(flags, word) == U16(flags) \o U16(word)
PowerSamples == {<<0, 200>>, <<24, 65336>>}
PowerFrames ==
  Prefixes(PowerFrame(24, 200))
    \cup UNION {Extended(PowerFrame(x[1], x[2])) : x \in PowerSamples}

WheelFrame(revs, time) == <<1>> \o U32(revs) \o U16(time)
WheelRevs == 0..MaxWheelRevs
EventTimes == {512, 1536, 65024}
CrankOnlyFrame == <<2, 1, 0, 0, 2>>
CscFrames ==
  {CrankOnlyFrame}
    \cup Prefixes(WheelFrame(1, 1536))
    \cup UNION {Extended(WheelFrame(r, t)) : r \in WheelRevs, t \in EventTimes}

(* _handle_wahoo_data: the vendor data characteristic. *)
VendorTooShort(data) == Len(data) < MinVendorLen

DecodeVendorBigEndian(data) ==
  Reading(data[2] + 256 * data[1], data[4] + 256 * data[3],
          Frac(data[6] + 256 * data[5], VendorSpeedScale))

DecodeVendor(data) ==
  Reading(FromBytesLE(Slice(data, 0, 2)), FromBytesLE(Slice(data, 2, 4)),
          Frac(FromBytesLE(Slice(data, 4, 6)), VendorSpeedScale))

HandleWahooData ==
  /\ \E data \in VendorFrames :
       IF VendorTooShort(data) THEN Discard("wahoo_data", data)
       ELSE \E out \in CallbackOutcomes :
              LET parsed == DecodeVendor(data)
              IN /\ notif' = [char |-> "wahoo_data", data |-> data]
                 /\ delivery' = Invoke(parsed, out)
                 /\ UNCHANGED <<aggregateVars, wheelSeen>>
  /\ UNCHANGED otherVars

(* _handle_cycling_power_data: Cycling Power Measurement (0x2A63). *)
PowerTooShort(data) == Len(data) < MinPowerLen

DecodePower(data) == FromBytesSigned(Slice(data, 2, 4))

SpeedAfterPowerReset(speed) == ZeroSpeed

(* Lines 586-590: a zero speed is left for the consumer to fill in. *)
SpeedAfterPower(speed) == speed

HandleCyclingPowerData ==
  /\ \E data \in PowerFrames :
       IF PowerTooShort(data) THEN Discard("cycling_power", data)
       ELSE \E out \in CallbackOutcomes :
              LET power == DecodePower(data)
                  speed == SpeedAfterPower(latest_speed_kmh)
              IN /\ notif' = [char |-> "cycling_power", data |-> data]
                 /\ latest_power_w' = power
                 /\ latest_speed_kmh' = speed
                 /\ delivery' =
                      Invoke(Reading(power, latest_cadence_rpm, speed), out)
                 /\ UNCHANGED <<last_wheel_revs, last_wheel_time,
                                latest_cadence_rpm, wheelSeen>>
  /\ UNCHANGED otherVars

(* _handle_csc_measurement_data: CSC Measurement (0x2A5B). *)
WheelDataPresentNoLength(data) == data[1] % 2 = 1

(* Lines 500-501: flags bit 0, and six bytes after the flags byte. *)
WheelDataPresent(data) ==
  data[1] % 2 = 1 /\ Len(data) >= 1 + WheelFieldLen

TimeDeltaNoWrap(time, last) == time - last

(* Lines 510-515: the 16-bit event time wraps at 65536. *)
TimeDelta(time, last) ==
  IF time - last < 0 THEN time - last + TimeModulus ELSE time - last

(* Lines 517-522: revs / (ticks / 1024.0) * 2.105 * 3.6, in km/h. *)
WheelSpeed(revs_delta, time_delta) ==
  Frac(revs_delta * TicksPerSecond * WheelCircumferenceMm * KmhPerTenMs,
       time_delta * 10000)

(* Lines 507-522: the speed a wheel sample yields, 0.0 if none. *)
CscSpeed(revs, time) ==
  IF last_wheel_revs # Unset /\ last_wheel_time # Unset
  THEN LET revs_delta == revs - last_wheel_revs
           time_delta == TimeDelta(time, last_wheel_time)
       IN IF time_delta > 0 /\ revs_delta > 0
          THEN WheelSpeed(revs_delta, time_delta)
          ELSE ZeroSpeed
  ELSE ZeroSpeed

HandleCscMeasurementData ==
  /\ \E data \in CscFrames :
       IF Len(data) < 1 THEN Discard("csc", data)
       ELSE IF ~WheelDataPresent(data) THEN Discard("csc", data)
       ELSE LET revs == FromBytesLE(Slice(data, 1, 5))
                time == FromBytesLE(Slice(data, 5, 7))
                speed == CscSpeed(revs, time)
            IN /\ notif' = [char |-> "csc", data |-> data]
               /\ last_wheel_revs' = revs
               /\ last_wheel_time' = time
               /\ wheelSeen' = TRUE
               /\ IF speed.num > 0
                  THEN \E out \in CallbackOutcomes :
                         /\ latest_speed_kmh' = speed
                         /\ delivery' =
                              Invoke(Reading(latest_power_w,
                                             latest_cadence_rpm, speed), out)
                  ELSE /\ delivery' = NoDelivery
                       /\ UNCHANGED latest_speed_kmh
               /\ UNCHANGED <<latest_power_w, latest_cadence_rpm>>
  /\ UNCHANGED otherVars

(* disconnect() and a later connect() and start_data_stream() on the same *)
(* BLEClient, as the decoders see them: none of them assigns the          *)
(* aggregate or the stored wheel sample, which only __init__ sets.        *)
Reconnect ==
  /\ wheelSeen' = FALSE
  /\ notif' = NoNotif
  /\ delivery' = NoDelivery
  /\ UNCHANGED <<aggregateVars, otherVars>>

NextDecoder ==
  \/ HandleWahooData
  \/ HandleCyclingPowerData
  \/ HandleCscMeasurementData
  \/ Reconnect

SpecDecoder == Init /\ [][NextDecoder]_vars

(* ---------------------------------------------- the session's telemetry *)
(* The connecting worker together with the notifications its            *)
(* subscriptions deliver: a transport notifies on a characteristic while *)
(* its link is up and the characteristic is subscribed on it.            *)
StubFrames == {<<>>, <<68, 2, 100, 0, 80, 0>>}
(* A complete vendor frame and a frame that is too short. *)
StreamFrames == {VendorFrame(200, 80, 1000), <<200, 0, 80>>}

Notifies(t, char) == ~StreamDue /\ link[t] = "up" /\ char \in subs[t]

StreamQuiet ==
  /\ ret' = NoRet
  /\ gattLog' = NoWrite
  /\ UNCHANGED <<client, link, created, device_address, device_name, protocol,
                 pc, loc, codecVars, streamVars, appVars>>

HandleFtmsDataParsed(data) ==
  /\ notif' = [char |-> INDOOR_BIKE_DATA_UUID, data |-> data]
  /\ delivery' = Invoke(Reading(0, 0, ZeroSpeed), "ok")
  /\ UNCHANGED <<aggregateVars, wheelSeen>>

(* _handle_ftms_data (347-350): the frame is logged. *)
HandleFtmsData(data) ==
  /\ notif' = [char |-> INDOOR_BIKE_DATA_UUID, data |-> data]
  /\ delivery' = NoDelivery
  /\ UNCHANGED <<aggregateVars, wheelSeen>>

(* _handle_wahoo_control_data (480-483): the frame is logged. *)
HandleWahooControlData(data) ==
  /\ notif' = [char |-> WAHOO_TRAINER_CONTROL_UUID, data |-> data]
  /\ delivery' = NoDelivery
  /\ UNCHANGED <<aggregateVars, wheelSeen>>

(* _handle_wahoo_data (600-645) on a subscribed transport. *)
WahooDataNotification(data, out) ==
  IF VendorTooShort(data) THEN Discard(WAHOO_DATA_CHAR_UUID, data)
  ELSE /\ notif' = [char |-> WAHOO_DATA_CHAR_UUID, data |-> data]
       /\ delivery' = Invoke(DecodeVendor(data), out)
       /\ UNCHANGED <<aggregateVars, wheelSeen>>

NotifyFtms ==
  \E t \in Transports, data \in StubFrames :
    Notifies(t, INDOOR_BIKE_DATA_UUID) /\ HandleFtmsData(data) /\ StreamQuiet

NotifyWahooControl ==
  \E t \in Transports, data \in StubFrames :
    /\ Notifies(t, WAHOO_TRAINER_CONTROL_UUID)
    /\ HandleWahooControlData(data)
    /\ StreamQuiet

NotifyWahooData ==
  \E t \in Transports, data \in StreamFrames, out \in CallbackOutcomes :
    /\ Notifies(t, WAHOO_DATA_CHAR_UUID)
    /\ WahooDataNotification(data, out)
    /\ StreamQuiet

(* The connecting worker's steps of NextStream. *)
NextTelemetry ==
  \/ StreamDue /\ StreamStart(Connector)
  \/ ~StreamDue /\ \E a \in Addresses : ConnectStart(Connector, a)
  \/ ConnectAfterDisconnect(Connector)
  \/ ConnectResume(Connector)
  \/ ConnectExceptResume(Connector)
  \/ ConnectEnumerate(Connector)
  \/ ConnectNoServiceResume(Connector)
  \/ ~StreamDue /\ DisconnectStart(Connector)
  \/ DisconnectResume(Connector)
  \/ StreamFtmsResume(Connector)
  \/ StreamUnlockResume(Connector)
  \/ StreamSleepResume(Connector)
  \/ StreamDataResume(Connector)
  \/ StreamOptionalResume(Connector)
  \/ ~StreamDue /\ \E t \in Transports : LinkDrop(t)
  \/ NotifyFtms
  \/ NotifyWahooControl
  \/ NotifyWahooData

SpecTelemetry == Init /\ [][NextTelemetry]_vars

(* ================================================================ claims *)
HasService(svcs, u) == \E i \in DOMAIN svcs : svcs[i] = u

(* The step in which a call of op returns to its caller. *)
ReturnStep(op) == ret'.op = op

(* C1: a connect() that gets to enumerate the services selects FTMS when *)
(* the FTMS service is listed (whatever else is listed, in any order),   *)
(* else the vendor protocol when the vendor service is listed, and       *)
(* returns success in both cases.                                        *)
C1_ProtocolPriority ==
  [][(ReturnStep("connect") /\ ret'.msg \in {"", NoServiceMsg}) =>
       /\ HasService(ret'.svcs, FTMS_SERVICE_UUID) =>
            (ret'.ok /\ protocol' = "ftms")
       /\ (~HasService(ret'.svcs, FTMS_SERVICE_UUID)
            /\ HasService(ret'.svcs, WAHOO_SERVICE_UUID)) =>
            (ret'.ok /\ protocol' = "wahoo")]_vars

C1_Witness ==
  /\ ret.op = "connect"
  /\ ret.ok
  /\ ret.svcs = <<WAHOO_SERVICE_UUID, FTMS_SERVICE_UUID>>
  /\ protocol = "ftms"

(* C2: when neither service is advertised, connect() returns the         *)
(* no-service failure and on return the session is disconnected and      *)
(* holds no device address or name.                                      *)
C2_NoServiceLeavesDisconnected ==
  [][(ReturnStep("connect") /\ ret'.msg = NoServiceMsg) =>
       /\ ~ret'.ok
       /\ ~IsConnected'
       /\ device_address' = None
       /\ device_name' = None]_vars

(* C3: no call on the session raises: every transport outcome comes back *)
(* as a result.                                                          *)
C3_NoExceptionEscapes == ~ret.raised

C3_Witness ==
  /\ ret.op = "connect"
  /\ ~ret.ok
  /\ ret.msg = "Error: TimeoutError"

(* C4: at most one transport opened by the session is connected, and a   *)
(* connected transport is the one the session references.                *)
C4_OneActiveTransport ==
  /\ Cardinality({t \in Transports : link[t] = "up"}) <= 1
  /\ \A t \in Transports : link[t] = "up" => client = t

(* C5: whenever disconnect() returns, it has not raised and the device   *)
(* address and name are cleared.                                         *)
C5_DisconnectClears ==
  [][ReturnStep("disconnect") =>
       /\ ~ret'.raised
       /\ device_address' = None
       /\ device_name' = None]_vars

(* C6: a command method called while the session is not connected or its *)
(* protocol is not the vendor protocol returns failure, writes nothing   *)
(* and leaves the session as it was.                                     *)
C6_CommandsNeedVendorSession ==
  [][\A op \in CommandOps :
       (ReturnStep(op) /\ ~(IsConnected /\ protocol = "wahoo")) =>
          /\ ~ret'.ok
          /\ gattLog' = NoWrite
          /\ sessionVars' = sessionVars
          /\ link' = link]_vars

C6_Witness ==
  /\ ret.op \in CommandOps
  /\ ~ret.ok
  /\ IsConnected
  /\ protocol = "ftms"
  /\ gattLog = NoWrite

(* round() of (g/100 + 1) * 32768 for g in hundredths of a percent (no   *)
(* tie occurs on this grid).                                             *)
RoundedGrade(g) == (2 * (10000 + g) * GradeScale + 10000) \div 20000

Abs(x) == IF x < 0 THEN -x ELSE x

(* C7: set_gradient writes 0x46 followed by the little-endian u16 of     *)
(* round((clamp(g, -20, 20)/100 + 1) * 32768).                           *)
C7_GradientRounded ==
  encOp = "set_gradient" =>
    LET r == RoundedGrade(Clamp(-GradeClamp, GradeClamp, encIn))
    IN encOut = <<OpGradient, r % 256, r \div 256>>

(* C8: for g within +-20%, decoding the encoded u16 recovers g within    *)
(* half a unit of the fixed-point scheme:                                *)
(* |(e/32768 - 1)*100 - g| <= 0.5 * 100/32768.                           *)
C8_GradeRoundTrip ==
  (encOp = "set_gradient" /\ encIn \in (-GradeClamp)..GradeClamp) =>
    LET e == encOut[2] + 256 * encOut[3]
    IN Abs((e - GradeScale) * 10000 - encIn * GradeScale) <= 5000

(* C9: set_resistance_level writes 0x41 and a level in 0..9 that is the  *)
(* linear image of the input, non-decreasing in it, 9 for every input    *)
(* >= 100 and 0 for every input <= 0.                                    *)
C9_LoadLevelClamped ==
  encOp = "set_resistance_level" =>
    /\ Len(encOut) = 2
    /\ encOut[1] = OpLoadLevel
    /\ encOut[2] \in 0..9
    /\ encIn >= 100 => encOut[2] = 9
    /\ encIn <= 0 => encOut[2] = 0
    /\ encIn \in 0..100 =>
         (encOut[2] * 100 <= encIn * 9 /\ encIn * 9 < (encOut[2] + 1) * 100)
    /\ \A x \in LevelInputs : x <= encIn => LoadLevel(x) <= encOut[2]

C9_Witness ==
  /\ encOp = "set_resistance_level"
  /\ encIn = 150
  /\ encOut = <<OpLoadLevel, 9>>

(* C10: set_erg_mode writes 0x42 and the little-endian u16 of the target *)
(* power clamped to 0..2000 W.                                           *)
C10_ErgClamped ==
  encOp = "set_erg_mode" =>
    /\ Len(encOut) = 3
    /\ encOut[1] = OpErg
    /\ encOut[2] \in 0..255
    /\ encOut[3] \in 0..255
    /\ LET w == encOut[2] + 256 * encOut[3]
       IN /\ w \in 0..2000
          /\ encIn \in 0..2000 => w = encIn
          /\ encIn < 0 => w = 0
          /\ encIn > 2000 => w = 2000

C10_Witness ==
  /\ encOp = "set_erg_mode"
  /\ encIn = 2100
  /\ encOut = <<OpErg, 208, 7>>

(* C11: set_rider_characteristics writes 0x43 followed by three little-  *)
(* endian u16: the weight clamped to 40..150 kg times 100, Crr clamped to *)
(* 0.002..0.010 times 10000 and CdA clamped to 0.2..0.6 times 1000.       *)
C11_RiderEncoding ==
  encOp = "set_rider_characteristics" =>
    LET w == Clamp(WeightMin * WeightGrid, WeightMax * WeightGrid, encIn[1])
                * (WeightScale \div WeightGrid)
        c == Clamp(CrrMin, CrrMax, encIn[2])
        a == Clamp(CdaMin, CdaMax, encIn[3])
    IN encOut = <<OpRider, w % 256, w \div 256, c % 256, c \div 256,
                  a % 256, a \div 256>>

(* A notification as the claims describe it. *)
Word(d, i) == d[i] + 256 * d[i + 1]
Signed16(u) == IF u >= 32768 THEN u - 65536 ELSE u
VendorDecodes(n) == n.char = "wahoo_data" /\ Len(n.data) >= 6
PowerDecodes(n) == n.char = "cycling_power" /\ Len(n.data) >= 4
WheelSample(n) == n.char = "csc" /\ Len(n.data) >= 7 /\ n.data[1] % 2 = 1
WheelRevsOf(n) ==
  n.data[2] + 256 * n.data[3] + 65536 * n.data[4] + 16777216 * n.data[5]
WheelTimeOf(n) == Word(n.data, 6)

(* C12: a vendor data frame of at least 6 bytes delivers one reading:    *)
(* power and cadence the little-endian u16 of bytes 0-1 and 2-3, speed   *)
(* the little-endian u16 of bytes 4-5 divided by 100, distance 0; bytes  *)
(* after the sixth are ignored.                                          *)
C12_VendorDecode ==
  VendorDecodes(notif) =>
    /\ Len(delivery.readings) = 1
    /\ LET r == delivery.readings[1]
       IN /\ r.power_w = Word(notif.data, 1)
          /\ r.cadence_rpm = Word(notif.data, 3)
          /\ r.speed_kmh.num * 100 = Word(notif.data, 5) * r.speed_kmh.den
          /\ r.distance_m = 0

C12_Witness ==
  /\ notif = [char |-> "wahoo_data", data |-> <<200, 0, 80, 0, 232, 3, 255>>]
  /\ delivery.readings = <<Reading(200, 80, [num |-> 10, den |-> 1])>>

(* C13: a too-short frame (vendor < 6 bytes, Cycling Power < 4 bytes,    *)
(* empty CSC, CSC with the wheel flag and fewer than 6 bytes after the   *)
(* flags byte) invokes no callback, changes nothing of the aggregate or  *)
(* the stored wheel sample, and raises nothing.                          *)
C13_ShortFrameDiscarded ==
  [][((notif'.char = "wahoo_data" /\ Len(notif'.data) < 6)
        \/ (notif'.char = "cycling_power" /\ Len(notif'.data) < 4)
        \/ (notif'.char = "csc" /\ Len(notif'.data) = 0)
        \/ (notif'.char = "csc" /\ Len(notif'.data) \in 1..6
              /\ notif'.data[1] % 2 = 1)) =>
       /\ delivery'.readings = <<>>
       /\ ~delivery'.escaped
       /\ aggregateVars' = aggregateVars]_vars

C13_Witness ==
  /\ notif = [char |-> "csc", data |-> <<1, 1, 0, 0, 0, 0>>]
  /\ delivery = NoDelivery
  /\ latest_power_w = 200
  /\ latest_speed_kmh.num > 0
  /\ last_wheel_revs = 2

(* C14: a Cycling Power frame sets the aggregate's power to the signed   *)
(* 16-bit value of bytes 2-3 and leaves speed and cadence; a CSC frame   *)
(* leaves power and cadence; the reading delivered by a speed-producing  *)
(* CSC frame that follows a Cycling Power frame has the new speed, that  *)
(* frame's power and the cadence as it was.                              *)
C14_FrameEffects ==
  [][/\ PowerDecodes(notif') =>
          /\ latest_power_w' = Signed16(Word(notif'.data, 3))
          /\ latest_speed_kmh' = latest_speed_kmh
          /\ latest_cadence_rpm' = latest_cadence_rpm
     /\ notif'.char = "csc" =>
          /\ latest_power_w' = latest_power_w
          /\ latest_cadence_rpm' = latest_cadence_rpm
     /\ (PowerDecodes(notif) /\ notif'.char = "csc"
          /\ delivery'.readings # <<>>) =>
          /\ latest_speed_kmh'.num > 0
          /\ delivery'.readings =
               <<Reading(Signed16(Word(notif.data, 3)), latest_cadence_rpm,
                         latest_speed_kmh')>>]_vars

C14_Witness ==
  /\ notif.char = "csc"
  /\ latest_power_w = -200
  /\ delivery.readings =
       <<Reading(-200, 0, Frac(WheelCircumferenceMm * KmhPerTenMs, 10000))>>

(* C15: last-known-value merge, for two consecutive notifications: the   *)
(* reading delivered by a Cycling Power frame (which carries power only) *)
(* or by a speed-producing CSC frame (speed only) right after a vendor   *)
(* data frame has, for the fields it does not carry, the values of that  *)
(* vendor frame, and a vendor frame's reading has its own three values.  *)
C15_LastKnownValueMerge ==
  [][/\ (VendorDecodes(notif) /\ PowerDecodes(notif')) =>
          delivery'.readings =
            <<Reading(Signed16(Word(notif'.data, 3)), Word(notif.data, 3),
                      Frac(Word(notif.data, 5), VendorSpeedScale))>>
     /\ (VendorDecodes(notif) /\ notif'.char = "csc"
          /\ delivery'.readings # <<>>) =>
          /\ delivery'.readings[1].power_w = Word(notif.data, 1)
          /\ delivery'.readings[1].cadence_rpm = Word(notif.data, 3)
     /\ VendorDecodes(notif') =>
          delivery'.readings =
            <<Reading(Word(notif'.data, 1), Word(notif'.data, 3),
                      Frac(Word(notif'.data, 5), VendorSpeedScale))>>]_vars

(* C16: every notification that decodes (a vendor data frame of >= 6    *)
(* bytes, a Cycling Power frame of >= 4 bytes, a CSC frame with complete *)
(* wheel-revolution data) invokes on_reading exactly once, with the      *)
(* aggregate as it is after the decode.                                  *)
C16_EveryDecodeDelivers ==
  [][(VendorDecodes(notif') \/ PowerDecodes(notif') \/ WheelSample(notif')) =>
       delivery'.readings =
         <<Reading(latest_power_w', latest_cadence_rpm',
                   latest_speed_kmh')>>]_vars

(* C17: when on_reading raises, the exception is caught where the        *)
(* callback is invoked and does not leave the handler, what the decode   *)
(* stored is kept, and the next notification is decoded and delivered as *)
(* after a successful callback.                                          *)
C17_CallbackFailureContained ==
  [][/\ delivery'.cb = "RuntimeError" =>
          /\ delivery'.caught = "callback"
          /\ ~delivery'.escaped
          /\ PowerDecodes(notif') =>
               latest_power_w' = Signed16(Word(notif'.data, 3))
          /\ WheelSample(notif') =>
               /\ last_wheel_revs' = WheelRevsOf(notif')
               /\ last_wheel_time' = WheelTimeOf(notif')
               /\ latest_speed_kmh' = delivery'.readings[1].speed_kmh
     /\ (delivery.cb = "RuntimeError"
          /\ (VendorDecodes(notif') \/ PowerDecodes(notif'))) =>
          Len(delivery'.readings) = 1]_vars

C17_Witness ==
  /\ delivery.cb = "RuntimeError"
  /\ WheelSample(notif)
  /\ Len(delivery.readings) = 1
  /\ latest_speed_kmh = delivery.readings[1].speed_kmh
  /\ latest_speed_kmh.num > 0

(* C18: every reading delivered has power, cadence and speed >= 0 and    *)
(* distance 0.                                                           *)
C18_ReadingsNonNegative ==
  \A i \in DOMAIN delivery.readings :
    /\ delivery.readings[i].power_w >= 0
    /\ delivery.readings[i].cadence_rpm >= 0
    /\ delivery.readings[i].speed_kmh.num >= 0
    /\ delivery.readings[i].distance_m = 0

(* C19: a wheel sample (revs, time) after a stored sample, with          *)
(* time_delta = time - prev_time (+ 65536 if negative) and revs_delta    *)
(* both > 0, publishes revs_delta / (time_delta / 1024) * 2.105 * 3.6    *)
(* km/h; for 1024 ticks that is revs_delta * 2.105 * 3.6, also when the  *)
(* event time has wrapped.                                               *)
C19_WheelSpeed ==
  [][(WheelSample(notif') /\ last_wheel_revs # Unset
        /\ last_wheel_time # Unset) =>
       LET revs_delta == WheelRevsOf(notif') - last_wheel_revs
           diff == WheelTimeOf(notif') - last_wheel_time
           time_delta == IF diff < 0 THEN diff + 65536 ELSE diff
       IN (revs_delta > 0 /\ time_delta > 0) =>
            /\ latest_speed_kmh' =
                 Frac(revs_delta * 1024 * 2105 * 36, time_delta * 10000)
            /\ Len(delivery'.readings) = 1
            /\ delivery'.readings[1].speed_kmh = latest_speed_kmh'
            /\ time_delta = 1024 =>
                 latest_speed_kmh' = Frac(revs_delta * 2105 * 36, 10000)]_vars

C19_Witness ==
  /\ WheelSample(notif)
  /\ last_wheel_time = 512
  /\ Len(delivery.readings) = 1
  /\ delivery.readings[1].speed_kmh = Frac(2 * 2105 * 36, 10000)
  /\ latest_speed_kmh = Frac(2 * 2105 * 36, 10000)

(* C20: the first wheel sample received on a connection updates no speed *)
(* and invokes no callback, whatever was stored before the connection.   *)
C20_FirstSampleOfConnection ==
  [][(WheelSample(notif') /\ ~wheelSeen) =>
       /\ delivery'.readings = <<>>
       /\ latest_speed_kmh' = latest_speed_kmh]_vars

(* C21: when start_data_stream returns from the vendor branch, each of  *)
(* the four subscriptions (vendor data, control responses, Cycling       *)
(* Power, CSC) has been attempted, whichever of them failed.             *)
C21_IndependentSubscriptions ==
  [][(ReturnStep("start_data_stream")
        /\ WAHOO_DATA_CHAR_UUID \in attempts') =>
       attempts' = {WAHOO_DATA_CHAR_UUID, WAHOO_TRAINER_CONTROL_UUID,
                    CYCLING_POWER_MEASUREMENT_UUID, CSC_MEASUREMENT_UUID}]_vars

ControlOps == {OpLoadLevel, OpErg, OpRider, OpGradient}

(* C22: a control command (0x41, 0x42, 0x43, 0x46) is written on a       *)
(* transport only after the unlock was written on it, the unlock is      *)
(* written at most once per transport, and a failed unlock write is      *)
(* followed by the vendor data subscription.                             *)
C22_UnlockBeforeControl ==
  [][/\ (gattLog' # NoWrite /\ gattLog'[1] \in ControlOps) =>
          unlockWrites'[client] = 1
     /\ \A t \in Transports : unlockWrites'[t] <= 1
     /\ (pc[Connector] = "s_unlock" /\ pc'[Connector] \notin {"s_unlock", "s_sleep"}) =>
          WAHOO_DATA_CHAR_UUID \in attempts']_vars

Magnitude(x) == IF x < 0 THEN -x ELSE x

(* C23: at most one SIM loop task exists at any time, whatever starts    *)
(* (ride start, resume, mode toggle) overlap.                            *)
C23_SingleSimLoop == Cardinality(AliveTasks(ride, "sim")) <= 1

(* C24: when _stop_sim_mode returns, every SIM loop task has been        *)
(* cancelled and has ended, and while sim_task is None and no start is   *)
(* under way no SIM loop writes the ride state.                          *)
C24_StopEndsTheLoop ==
  [][/\ ride'.event.stop = "returned" => AliveTasks(ride', "sim") = {}
     /\ (ride.sim_task = None
           /\ \A w \in Workers : ride.wk[w].at # "ssm_write") =>
          ride'.event.wrote # "simloop"]_vars

C26_OneModeActive ==
  [][/\ AliveTasks(ride', "sim") = {} \/ AliveTasks(ride', "demo") = {}
     /\ ride'.metrics.mode = "LIVE" =>
          AliveTasks(ride', "sim") \cup AliveTasks(ride', "demo") = {}
     /\ ride'.event.wrote = "ble" => AliveTasks(ride, "demo") = {}]_vars

(* C27: in every get_metrics snapshot, a field that update_metrics call  *)
(* n set comes with the other fields of call n, each as call n or a      *)
(* later call left it.                                                   *)
C27_AtomicUpdates ==
  \A n \in DOMAIN calls :
    \A f \in calls[n] \cap RideFields, g \in calls[n] \cap RideFields :
      snapshot[f] = n => snapshot[g] >= n

C27_Witness ==
  /\ Len(calls) = 3
  /\ calls[2] = {"power_w", "cadence_rpm", "speed_kmh"}
  /\ snapshot.power_w = 2
  /\ snapshot.speed_kmh = 2
  /\ snapshot.grade_pct = 1
  /\ shared.grade_pct = 3

(* C28: the resistance scale the SIM loop reads exists, is 1.0 until     *)
(* adjusted and stays within 0.3 .. 2.0; a step changes it by 0.1 at     *)
(* most, and not at all outside SIM mode.                                *)
C28_ResistanceScale ==
  [][/\ HasAttr(GetMetrics(ride.metrics), "resistance_scale")
     /\ HasAttr(GetMetrics(ride'.metrics), "resistance_scale")
     /\ ride'.event.scale # "AttributeError"
     /\ ride'.metrics.resistance_scale \in ScaleMin..ScaleMax
     /\ Magnitude(ride'.metrics.resistance_scale
                    - ride.metrics.resistance_scale) <= 1
     /\ ride.metrics.mode # "SIM" =>
          ride'.metrics.resistance_scale = ride.metrics.resistance_scale]_vars

(* C29: when _stop_sim_mode returns, last_gradient and target_gradient   *)
(* are 0 and resistance_scale is 1.0; last_gradient and target_gradient  *)
(* change in iterations of the SIM loop only.                            *)
C29_LoopStateDiscarded ==
  [][/\ ride'.event.stop = "returned" =>
          /\ ride'.last_gradient = 0
          /\ ride'.target_gradient = 0
          /\ HasAttr(GetMetrics(ride'.metrics), "resistance_scale")
          /\ ride'.metrics.resistance_scale = 10
     /\ (ride'.last_gradient # ride.last_gradient
           \/ ride'.target_gradient # ride.target_gradient) =>
          ride'.event.wrote = "simloop"]_vars

(* C30: power_to_speed runs at most 20 loop passes; for a power of 0 or  *)
(* less it returns exactly 0.0 without entering the loop, and for a      *)
(* power above 0 it returns a finite speed from 0.1 to 30.0 m/s, for     *)
(* every grade and mass.                                                 *)
C30_SolverBounded ==
  /\ solver.iter <= Iterations
  /\ solver.pc = "done" =>
       /\ FLe(solver.power_w, Fin(0)) =>
            solver.result = Fin(0) /\ solver.iter = 0
       /\ FLt(Fin(0), solver.power_w) =>
            /\ solver.result.k = "fin"
            /\ solver.result.v >= SpeedMin
            /\ solver.result.v <= SpeedMax

C30_Witness ==
  /\ solver.pc = "done"
  /\ solver.power_w = Fin(250 * Unit)
  /\ solver.grade_pct = Fin(-10 * Unit)
  /\ solver.total_mass_kg = Fin(100 * Unit)
  /\ solver.iter = Iterations
  /\ solver.result = Fin(SpeedMin)

(* C31: for a fixed grade and mass, power_to_speed does not return less  *)
(* for a larger power: the speed a call returns is at least the speed    *)
(* returned for every smaller power.                                     *)
C31_Monotonic ==
  solver.pc = "done" =>
    \A p1 \in SolverPowers :
      FLe(p1, solver.power_w) =>
        FLe(SpeedOf(p1, solver.grade_pct, solver.total_mass_kg),
            solver.result)

(* C32: a notification on the FTMS indoor-bike-data characteristic or on *)
(* the vendor control characteristic invokes no callback and leaves the  *)
(* session's telemetry aggregate as it was, and no notification of a     *)
(* connected session whose protocol is FTMS delivers a reading.          *)
C32_StubsDeliverNothing ==
  [][notif' # notif =>
       /\ notif'.char \in {INDOOR_BIKE_DATA_UUID, WAHOO_TRAINER_CONTROL_UUID}
            => delivery' = NoDelivery /\ UNCHANGED aggregateVars
       /\ (IsConnected /\ protocol = FTMS_SERVICE_UUID)
            => delivery'.readings = <<>>]_vars

C32_Witness ==
  /\ IsConnected
  /\ protocol = FTMS_SERVICE_UUID
  /\ notif = [char |-> INDOOR_BIKE_DATA_UUID,
              data |-> <<68, 2, 100, 0, 80, 0>>]
  /\ delivery = NoDelivery

C34_LoopEndsOnlyByExitOrCancel ==
  [][\A i \in AliveTasks(ride, "sim") :
       ride'.tasks[i].status # "alive" =>
         /\ ride'.tasks[i].status \in {"done", "cancelled"}
         /\ ride'.tasks[i].status = "done" =>
              /\ ride.metrics.mode # "SIM"
              /\ ride'.event.wrote # "simloop"
              /\ ride'.metrics = ride.metrics]_vars

(* C35 as stated: a call of _calculate_grade raises no ZeroDivisionError; *)
(* it returns 0.0 for a route of fewer than 2 points and whenever the     *)
(* position is at or beyond the route end; otherwise it returns           *)
(* (elevation(d + L) - elevation(d)) / L * 100 with L the smaller of      *)
(* 100 m and the distance left to the route end.                          *)
C35_TargetGrade ==
  grader.pc = "done" =>
    LET d == grader.distance_m
        left == FSub(grader.max_distance, d)
        L == IF FLt(left, Fin(Lookahead)) THEN left ELSE Fin(Lookahead)
    IN  /\ grader.result # ZeroDivision
        /\ Len(grader.points) < 2 => grader.result = Fin(0)
        /\ FLe(grader.max_distance, d) => grader.result = Fin(0)
        /\ Len(grader.points) >= 2 /\ FLt(d, grader.max_distance) =>
             grader.result =
               FMul(FDiv(FSub(GetElevationAtDistance(grader.points,
                                                     FAdd(d, L)),
                              GetElevationAtDistance(grader.points, d)),
                         L),
                    Fin(Percent))

(* C35 amended: a call of _calculate_grade raises no ZeroDivisionError;   *)
(* it returns 0.0 for a route of fewer than 2 points and when the         *)
(* position is exactly the route end; at every other position, beyond     *)
(* the route end included, it returns                                     *)
(* (elevation(d + L) - elevation(d)) / L * 100 with L the smaller of      *)
(* 100 m and the (then negative) distance left to the route end, which    *)
(* is 0.0 beyond the route end when the last point is not beyond it and   *)
(* the first point lies before the last.                                  *)
C35_TargetGradeAmended ==
  grader.pc = "done" =>
    LET d == grader.distance_m
        left == FSub(grader.max_distance, d)
        L == IF FLt(left, Fin(Lookahead)) THEN left ELSE Fin(Lookahead)
        last == grader.points[Len(grader.points)].distance_m
    IN  /\ grader.result # ZeroDivision
        /\ Len(grader.points) < 2 => grader.result = Fin(0)
        /\ grader.max_distance = d => grader.result = Fin(0)
        /\ Len(grader.points) >= 2 /\ grader.max_distance # d =>
             /\ grader.result =
                  FMul(FDiv(FSub(GetElevationAtDistance(grader.points,
                                                        FAdd(d, L)),
                                 GetElevationAtDistance(grader.points, d)),
                            L),
                       Fin(Percent))
             /\ (/\ FLt(grader.max_distance, d)
                 /\ FLe(last, grader.max_distance)
                 /\ FLt(grader.points[1].distance_m, last))
                  => grader.result = Fin(0)

C35_Witness ==
  /\ grader.pc = "done"
  /\ Len(grader.points) >= 2
  /\ FLt(grader.distance_m, grader.max_distance)
  /\ FLt(grader.max_distance, FAdd(grader.distance_m, Fin(Lookahead)))
  /\ grader.lookahead_distance = grader.max_distance
  /\ FLt(Fin(0), grader.result)

C37_SimTaskNeverStale ==
  ride.sim_task # None =>
    ride.tasks[ride.sim_task].status \in {"alive", "cancelled"}

C39_SpeedFollowsWheel ==
  [][(/\ notif.char = "csc"
      /\ delivery.readings # <<>>
      /\ latest_speed_kmh.num > 0
      /\ notif'.char = "csc"
      /\ Len(notif'.data) >= 1
      /\ WheelDataPresent(notif'.data)
      /\ WheelRevsOf(notif') = last_wheel_revs
      /\ TimeDelta(WheelTimeOf(notif'), last_wheel_time) > 0)
       => latest_speed_kmh' = ZeroSpeed]_vars

(* C40: no step other than reset() makes the stored ride distance        *)
(* smaller, whichever writer takes it and in whatever order.             *)
C40_DistanceMonotonic ==
  [][odo'.op # "reset" => odo'.distance_m >= odo.distance_m]_vars

====
